---------------------------- MODULE Spec2Model ----------------------------
(***************************************************************************)
(* SkyLink: collision detection between aircraft and drones, the tiered    *)
(* threat detection of the pilot dashboard and the per-drone alert         *)
(* translator.                                                             *)
(*                                                                         *)
(* Units.  Horizontal positions and distances are integers in units of     *)
(* 0.0001 km, so that round(x, 3) of the source is "to the nearest 10      *)
(* units" (and round(x, 2) "to the nearest 100 units").  Altitudes and     *)
(* vertical distances are integers in units of 0.001 m, so that            *)
(* round(x, 2) is "to the nearest 10 units".  All modelled points lie on   *)
(* one meridian: latitude is the arc length along it, and the geodesic     *)
(* (or haversine) distance of two points is the absolute difference of     *)
(* their latitudes.                                                        *)
(*                                                                         *)
(* A DataFrame cell that may be null (NaN / None) is a set: {} is null,    *)
(* {v} holds the value v.                                                  *)
(***************************************************************************)
EXTENDS Integers, Sequences, FiniteSets, TLC

VARIABLES
    \* collision_module.detect_collisions / get_collision_summary
    planes_df, drones_df, h_threshold, v_threshold, alerts, summary, pc,
    \* the columns of the two batches, the exception and the printed lines
    \* of the last detect_collisions call
    planes_columns, drones_columns, raised, stdout,
    \* the calls made so far by a caller that calls repeatedly
    history,
    \* the frames of the detect_collisions calls that run concurrently, and
    \* the alert lists they build
    invocation, lists,
    \* dashboard.app.PilotDashboardService.get_collision_threats
    use_test_data, svc_drones_df, current_aircraft, range_nm,
    all_threats, threats, tpc,
    \* drone_alerts.alert_translator.DroneAlertTranslator
    drone_data, plane_data, all_alerts, one_plane, one_drone, one_alert, xpc,
    \* the arguments and the results of the two distance functions
    arg_point1, arg_point2, arg_altitude1, arg_altitude2, ret_distance, fpc,
    \* dashboard.app.PilotDashboardService: the stored test and real data sets,
    \* the active plane set, the selected callsign, the locals of the padding
    \* loop of switch_data_mode, the last result of get_current_aircraft and
    \* the position of the running handler
    test_planes_df, test_drones_df, real_planes_df, real_drones_df,
    svc_planes_df, current_aircraft_callsign, additional_drones, base_drones,
    for_index, aircraft_returned, spc

callVars == <<history, invocation, lists>>
detectVars == <<planes_df, drones_df, h_threshold, v_threshold, alerts, summary, pc,
                planes_columns, drones_columns, raised, stdout, callVars>>
tierVars == <<use_test_data, svc_drones_df, current_aircraft, range_nm,
              all_threats, threats, tpc>>
xlatVars == <<drone_data, plane_data, all_alerts, one_plane, one_drone, one_alert, xpc>>
distVars == <<arg_point1, arg_point2, arg_altitude1, arg_altitude2, ret_distance, fpc>>
dataVars == <<test_planes_df, test_drones_df, real_planes_df, real_drones_df>>
svcVars == <<dataVars, svc_planes_df, current_aircraft_callsign, additional_drones,
             base_drones, for_index, aircraft_returned, spc>>
extraVars == <<distVars, svcVars>>
vars == <<detectVars, tierVars, xlatVars, extraVars>>

---------------------------------------------------------------------------
(* Generic helpers                                                         *)

Abs(x) == IF x < 0 THEN -x ELSE x

\* A null cell and a cell holding v.
Null == {}
Some(v) == {v}
isna(c) == c = {}
val(c) == CHOOSE v \in c : TRUE

\* Sequences over S of length at most n.
SeqUpTo(S, n) == UNION {[1..k -> S] : k \in 0..n}

RECURSIVE SumSeq(_)
SumSeq(s) == IF s = <<>> THEN 0 ELSE Head(s) + SumSeq(Tail(s))

RECURSIVE MinSeq(_)
MinSeq(s) == IF Len(s) = 1 THEN s[1]
             ELSE LET m == MinSeq(Tail(s)) IN IF s[1] <= m THEN s[1] ELSE m

\* Python's round of the non-negative rational num/den to a multiple of q
\* units: to the nearest multiple, an exact tie going to the even one.
RoundDiv(num, den, q) ==
    LET d == den * q
        f == num \div d
        r == num % d
    IN  IF 2 * r < d THEN f * q
        ELSE IF 2 * r > d THEN (f + 1) * q
        ELSE IF f % 2 = 0 THEN f * q ELSE (f + 1) * q

\* round(x, 3) of a horizontal distance in km, round(x, 2) of a vertical
\* distance in m: both are "to the nearest 10 units" of the model.
RoundGrid == 10
round3km(x) == RoundDiv(x, 1, RoundGrid)
round2m(x) == RoundDiv(x, 1, RoundGrid)

\* Tuples of integers compared as Python compares tuples: k1 <= k2.
RECURSIVE TupleLeq(_, _)
TupleLeq(k1, k2) ==
    IF k1 = <<>> THEN TRUE
    ELSE IF k2 = <<>> THEN FALSE
    ELSE IF Head(k1) < Head(k2) THEN TRUE
    ELSE IF Head(k1) > Head(k2) THEN FALSE
    ELSE TupleLeq(Tail(k1), Tail(k2))

\* Python's list.sort(key=...), a stable sort, on a sequence of <<key, item>>
\* pairs: each pair is inserted after the pairs whose key is not larger.
RECURSIVE InsertByKey(_, _)
InsertByKey(x, s) ==
    IF s = <<>> THEN <<x>>
    ELSE IF TupleLeq(Head(s)[1], x[1]) THEN <<Head(s)>> \o InsertByKey(x, Tail(s))
         ELSE <<x>> \o s

RECURSIVE SortByKey(_)
SortByKey(s) ==
    IF s = <<>> THEN <<>>
    ELSE InsertByKey(s[Len(s)], SortByKey(SubSeq(s, 1, Len(s) - 1)))

\* The items of a sequence of <<key, item>> pairs.
Items(s) == [i \in 1..Len(s) |-> s[i][2]]

---------------------------------------------------------------------------
(* collision_module/collision_detection.py                                 *)

\* float('inf'), the value calculate_horizontal_distance returns on failure;
\* also the cell value of a non-finite coordinate.  It exceeds every
\* distance and every threshold of the model.
Inf == 1000000000
\* A cell that holds something that is not a number (a string, an object):
\* float() of it raises, and so does geodesic.
NonNumeric == -1000000000

\* Variant of the vertical distance that keeps the sign of the difference.
calculate_vertical_distance_signed(altitude1, altitude2) == altitude1 - altitude2
\* geodesic raises ValueError for a coordinate that is not a finite number.
geodesic_raises(lat1, lon1, lat2, lon2) ==
    {lat1, lon1, lat2, lon2} \cap {Inf, NonNumeric} # {}

\* Variant that returns the distance in metres (geodesic(...).meters).
calculate_horizontal_distance_meters(lat1, lon1, lat2, lon2) ==
    IF geodesic_raises(lat1, lon1, lat2, lon2) THEN Inf ELSE Abs(lat1 - lat2) * 1000
\* Variant whose failure value is a distance of zero.
calculate_horizontal_distance_zero(lat1, lon1, lat2, lon2) ==
    IF geodesic_raises(lat1, lon1, lat2, lon2) THEN 0 ELSE Abs(lat1 - lat2)
\* geodesic(point1, point2).kilometers for two points of the meridian; every
\* exception is caught and answered with the infinite distance.
calculate_horizontal_distance(lat1, lon1, lat2, lon2) ==
    IF geodesic_raises(lat1, lon1, lat2, lon2) THEN Inf ELSE Abs(lat1 - lat2)

calculate_vertical_distance(altitude1, altitude2) == Abs(altitude1 - altitude2)

\* DataFrame.dropna(subset=[...]) on the mandatory columns.
PlaneComplete(p) == ~isna(p.icao24) /\ ~isna(p.latitude) /\ ~isna(p.longitude)
                    /\ ~isna(p.baro_altitude)
DroneComplete(d) == ~isna(d.drone_id) /\ ~isna(d.latitude) /\ ~isna(d.longitude)
                    /\ ~isna(d.altitude)
\* Variant that stops cleaning a batch at its first row with a null cell.
RECURSIVE planes_clean_prefix(_)
planes_clean_prefix(planes) ==
    IF planes = <<>> \/ ~PlaneComplete(Head(planes)) THEN <<>>
    ELSE <<Head(planes)>> \o planes_clean_prefix(Tail(planes))
planes_clean(planes) == SelectSeq(planes, PlaneComplete)
drones_clean(drones) == SelectSeq(drones, DroneComplete)

\* Variant of the threshold test with exclusive bounds.
WithinThresholdsStrict(h_distance, v_distance, h, v) == h_distance < h /\ v_distance < v
\* Variant: the vertical test admits what lies at or beyond the threshold.
WithinThresholdsOutside(h_distance, v_distance, h, v) == h_distance <= h /\ v_distance >= v
\* Variant: only the horizontal distance is tested.
WithinThresholdsHorizontal(h_distance, v_distance, h, v) == h_distance <= h
\* The threshold test of one pair (line 121).
WithinThresholds(h_distance, v_distance, h, v) == h_distance <= h /\ v_distance <= v

\* float(plane['baro_altitude']) or float(drone['altitude']) raises for a
\* cell that is not a number: the body of the inner loop throws.
PairRaises(plane, drone) ==
    val(plane.baro_altitude) = NonNumeric \/ val(drone.altitude) = NonNumeric

\* Variant of the handler of a failed pair that leaves the inner loop.
AfterPairErrorBreak(rest) == <<>>
\* The handler of a failed pair (lines 140-143): `continue`, the alerts of
\* the remaining drones follow.
AfterPairError(rest) == rest

\* The body of the inner loop for one (plane, drone) pair that does not
\* throw: <<alert>> when the pair is within both thresholds, <<>> otherwise.
PairAlert(plane, drone, h, v) ==
    LET h_distance == calculate_horizontal_distance(
                          val(plane.latitude), val(plane.longitude),
                          val(drone.latitude), val(drone.longitude))
        plane_altitude_m == val(plane.baro_altitude)
        drone_altitude_m == val(drone.altitude)
        v_distance == calculate_vertical_distance(plane_altitude_m, drone_altitude_m)
    IN  IF WithinThresholds(h_distance, v_distance, h, v)
        THEN << [drone_id |-> val(drone.drone_id),
                 plane_icao24 |-> val(plane.icao24),
                 horizontal_distance |-> round3km(h_distance),
                 vertical_distance |-> round2m(v_distance),
                 drone_lat |-> val(drone.latitude),
                 plane_lat |-> val(plane.latitude),
                 drone_altitude |-> drone_altitude_m,
                 plane_altitude |-> plane_altitude_m] >>
        ELSE <<>>

\* The inner loop: one plane against the drones, in drone order.
RECURSIVE PlaneAlerts(_, _, _, _)
PlaneAlerts(plane, drones, h, v) ==
    IF drones = <<>> THEN <<>>
    ELSE IF PairRaises(plane, Head(drones))
    THEN AfterPairError(PlaneAlerts(plane, Tail(drones), h, v))
    ELSE PairAlert(plane, Head(drones), h, v) \o PlaneAlerts(plane, Tail(drones), h, v)

\* Variant of the scan with the drones in the outer loop.
RECURSIVE ScanPairsDroneMajor(_, _, _, _)
ScanPairsDroneMajor(planes, drones, h, v) ==
    IF drones = <<>> THEN <<>>
    ELSE LET RECURSIVE Col(_)
             Col(ps) == IF ps = <<>> THEN <<>>
                        ELSE PlaneAlerts(Head(ps), <<Head(drones)>>, h, v) \o Col(Tail(ps))
         IN  Col(planes) \o ScanPairsDroneMajor(planes, Tail(drones), h, v)
\* The outer loop: the planes in order.
RECURSIVE ScanPairs(_, _, _, _)
ScanPairs(planes, drones, h, v) ==
    IF planes = <<>> THEN <<>>
    ELSE PlaneAlerts(Head(planes), drones, h, v) \o ScanPairs(Tail(planes), drones, h, v)

\* Variant of the alert list that is kept from one call to the next.
KeptAlertList == alerts
\* alerts = [] (line 77): every call starts a list of its own.
NewAlertList == <<>>

\* The list detect_collisions returns when it raises nothing.
detect_collisions(planes, drones, h, v) ==
    IF planes = <<>> \/ drones = <<>> THEN NewAlertList
    ELSE NewAlertList \o ScanPairs(planes_clean(planes), drones_clean(drones), h, v)

\* The mandatory columns (lines 85 and 91) and those a batch lacks.
required_plane_cols == {"icao24", "latitude", "longitude", "baro_altitude"}
required_drone_cols == {"drone_id", "latitude", "longitude", "altitude"}
missing_plane_cols(columns) == required_plane_cols \ columns
missing_drone_cols(columns) == required_drone_cols \ columns

\* Variant that treats an empty batch as an error of its own.
detect_raises_on_empty(planes, drones, pcols, dcols) ==
    IF planes = <<>> \/ drones = <<>>
    THEN [type |-> "ValueError", batch |-> "empty", columns |-> {}]
    ELSE <<>>
\* The exception detect_collisions raises, <<>> when it raises none.  The
\* emptiness test returns first; the plane columns are tested before the
\* drone columns, and the first failing test raises.
detect_raises(planes, drones, pcols, dcols) ==
    IF planes = <<>> \/ drones = <<>> THEN <<>>
    ELSE IF missing_plane_cols(pcols) # {}
    THEN [type |-> "ValueError", batch |-> "plane", columns |-> missing_plane_cols(pcols)]
    ELSE IF missing_drone_cols(dcols) # {}
    THEN [type |-> "ValueError", batch |-> "drone", columns |-> missing_drone_cols(dcols)]
    ELSE <<>>

\* The lines one pair prints: the failure of the geodesic (line 33), then
\* the failure of the pair (lines 141-142).
PairPrints(plane, drone) ==
    (IF geodesic_raises(val(plane.latitude), val(plane.longitude),
                        val(drone.latitude), val(drone.longitude))
     THEN << [msg |-> "Error calculating distance"] >> ELSE <<>>)
    \o (IF PairRaises(plane, drone)
        THEN << [msg |-> "Error processing pair", plane |-> val(plane.icao24),
                 drone |-> val(drone.drone_id)] >>
        ELSE <<>>)

\* The lines of the pairs from the k-th on, the pairs counted in scan order.
RECURSIVE ScanPrints(_, _, _)
ScanPrints(planes, drones, k) ==
    IF k > Len(planes) * Len(drones) THEN <<>>
    ELSE PairPrints(planes[((k - 1) \div Len(drones)) + 1],
                    drones[((k - 1) % Len(drones)) + 1])
         \o ScanPrints(planes, drones, k + 1)

\* Everything a call of detect_collisions prints that raises nothing.
detect_prints(planes, drones, h, v) ==
    IF planes = <<>> \/ drones = <<>>
    THEN << [msg |-> "Warning: One or both datasets are empty"] >>
    ELSE LET pcl == planes_clean(planes)
             dcl == drones_clean(drones)
         IN  << [msg |-> "Processing", planes |-> Len(pcl), drones |-> Len(dcl)] >>
             \o ScanPrints(pcl, dcl, 1)
             \o << [msg |-> "Collision detection complete",
                    collision_count |-> Len(ScanPairs(pcl, dcl, h, v)),
                    total_pairs |-> Len(pcl) * Len(dcl)] >>

\* The set of values of field f over the alerts (Series.nunique counts it).
DroneIds(as) == {as[i].drone_id : i \in 1..Len(as)}
PlaneIds(as) == {as[i].plane_icao24 : i \in 1..Len(as)}
HorizontalDistances(as) == [i \in 1..Len(as) |-> as[i].horizontal_distance]
VerticalDistances(as) == [i \in 1..Len(as) |-> as[i].vertical_distance]

\* Variant of the mean that cuts the decimals off instead of rounding.
MeanTruncated(s) == ((SumSeq(s) \div Len(s)) \div RoundGrid) * RoundGrid
\* round(Series.mean(), n) and round(Series.min(), n).
MeanRounded(s) == RoundDiv(SumSeq(s), Len(s), RoundGrid)
MinRounded(s) == RoundDiv(MinSeq(s), 1, RoundGrid)

\* Variant of the summary of no alerts that reports the mean and the least
\* value of an empty column, NaN, kept here as -1.
EmptySummaryNaN ==
    [total_alerts |-> 0, unique_drones |-> 0, unique_planes |-> 0,
     avg_horizontal_distance |-> -1, avg_vertical_distance |-> -1,
     min_horizontal_distance |-> -1, min_vertical_distance |-> -1]
\* The summary of an empty alert list (lines 161-170).
EmptySummary ==
    [total_alerts |-> 0, unique_drones |-> 0, unique_planes |-> 0,
     avg_horizontal_distance |-> 0, avg_vertical_distance |-> 0,
     min_horizontal_distance |-> 0, min_vertical_distance |-> 0]

get_collision_summary(as) ==
    IF as = <<>> THEN EmptySummary
    ELSE [total_alerts |-> Len(as),
          unique_drones |-> Cardinality(DroneIds(as)),
          unique_planes |-> Cardinality(PlaneIds(as)),
          avg_horizontal_distance |-> MeanRounded(HorizontalDistances(as)),
          avg_vertical_distance |-> MeanRounded(VerticalDistances(as)),
          min_horizontal_distance |-> MinRounded(HorizontalDistances(as)),
          min_vertical_distance |-> MinRounded(VerticalDistances(as))]

---------------------------------------------------------------------------
(* dashboard/app.py: PilotDashboardService                                 *)

\* distance_nm = distance_km / 1.852: one nautical mile in model units.
NmUnits == 18520

\* max_drones = 30 if not self.use_test_data else 15
max_drones(test) == IF test THEN 15 ELSE 30

\* effective_range = range_nm * 2 if not self.use_test_data else range_nm
effective_range(test, rng) == IF test THEN rng ELSE rng * 2

\* One entry of nearby_drones for a row of self.drones_df.
NearbyDrone(aircraft, drone) ==
    [drone_id |-> val(drone.drone_id),
     latitude |-> val(drone.latitude),
     longitude |-> val(drone.longitude),
     altitude |-> val(drone.altitude),
     distance |-> calculate_horizontal_distance(
                      aircraft.latitude, aircraft.longitude,
                      val(drone.latitude), val(drone.longitude))]

\* The loop of get_nearby_drones: rows with a null coordinate are skipped,
\* rows beyond the effective range are left out.
RECURSIVE NearbyLoop(_, _, _, _)
NearbyLoop(aircraft, drones, test, rng) ==
    IF drones = <<>> THEN <<>>
    ELSE LET drone == Head(drones)
             rest == NearbyLoop(aircraft, Tail(drones), test, rng)
         IN  IF isna(drone.latitude) \/ isna(drone.longitude) THEN rest
             ELSE IF NearbyDrone(aircraft, drone).distance
                         <= effective_range(test, rng) * NmUnits
                  THEN <<NearbyDrone(aircraft, drone)>> \o rest
                  ELSE rest

\* nearby_drones.sort(key=lambda x: x['distance']); nearby_drones[:max_drones]
get_nearby_drones(aircraft, drones, test, rng) ==
    LET found == NearbyLoop(aircraft, drones, test, rng)
        sorted == Items(SortByKey([i \in 1..Len(found) |->
                                      << <<found[i].distance>>, found[i] >>]))
    IN  SubSeq(sorted, 1, IF Len(sorted) < max_drones(test)
                          THEN Len(sorted) ELSE max_drones(test))

\* The tier lists of get_collision_threats (test mode, real mode), thresholds
\* in model units.
TestThreatLevels ==
    << [name |-> "critical", h_threshold |-> 1000, v_threshold |-> 30000],
       [name |-> "high", h_threshold |-> 3000, v_threshold |-> 50000],
       [name |-> "medium", h_threshold |-> 5000, v_threshold |-> 100000],
       [name |-> "low", h_threshold |-> 10000, v_threshold |-> 150000] >>
RealThreatLevels ==
    << [name |-> "critical", h_threshold |-> 500, v_threshold |-> 25000],
       [name |-> "high", h_threshold |-> 2000, v_threshold |-> 40000],
       [name |-> "medium", h_threshold |-> 4000, v_threshold |-> 75000],
       [name |-> "low", h_threshold |-> 8000, v_threshold |-> 120000],
       [name |-> "advisory", h_threshold |-> 15000, v_threshold |-> 200000] >>
threat_levels(test) == IF test THEN TestThreatLevels ELSE RealThreatLevels

\* current_plane_df and nearby_drones_df, the DataFrames handed to
\* detect_collisions.
current_plane_df(aircraft) ==
    << [icao24 |-> Some(aircraft.icao24), latitude |-> Some(aircraft.latitude),
        longitude |-> Some(aircraft.longitude),
        baro_altitude |-> Some(aircraft.altitude)] >>
nearby_drones_df(nearby) ==
    [i \in 1..Len(nearby) |->
        [drone_id |-> Some(nearby[i].drone_id), latitude |-> Some(nearby[i].latitude),
         longitude |-> Some(nearby[i].longitude), altitude |-> Some(nearby[i].altitude)]]

\* Variant that never finds an existing threat (no de-duplication).
ExistingThreatNever(ts, id) == FALSE
\* "existing_threat": a threat with this id is already in the list.
ExistingThreat(ts, id) == \E i \in 1..Len(ts) : ts[i].id = id

\* The inner loop of the merge: the alerts of one tier, in order; an alert
\* whose drone already has a threat is skipped.
RECURSIVE MergeAlerts(_, _, _)
MergeAlerts(ts, as, name) ==
    IF as = <<>> THEN ts
    ELSE LET alert == Head(as)
         IN  IF ExistingThreat(ts, alert.drone_id)
             THEN MergeAlerts(ts, Tail(as), name)
             ELSE MergeAlerts(
                    Append(ts, [type |-> "drone",
                                id |-> alert.drone_id,
                                latitude |-> alert.drone_lat,
                                altitude |-> alert.drone_altitude,
                                horizontal_distance |-> alert.horizontal_distance,
                                vertical_distance |-> alert.vertical_distance,
                                risk_level |-> name]),
                    Tail(as), name)

\* The outer loop of the merge: one detect_collisions run per tier, in list
\* order.
RECURSIVE MergeLevels(_, _, _, _)
MergeLevels(ts, levels, plane_df, drones) ==
    IF levels = <<>> THEN ts
    ELSE LET level == Head(levels)
             found == detect_collisions(plane_df, drones,
                                        level.h_threshold, level.v_threshold)
         IN  MergeLevels(MergeAlerts(ts, found, level.name), Tail(levels),
                         plane_df, drones)

\* risk_order = {'critical': 0, 'high': 1, 'medium': 2, 'low': 3}
risk_order == [n \in {"critical", "high", "medium", "low"} |->
                 CASE n = "critical" -> 0 [] n = "high" -> 1
                   [] n = "medium" -> 2 [] n = "low" -> 3]

\* risk_order[x['risk_level']] raises KeyError for one of the threats.
SortRaises(ts) == \E i \in 1..Len(ts) : ts[i].risk_level \notin DOMAIN risk_order

\* all_threats.sort(key=lambda x: (risk_order[x['risk_level']],
\*                                  x['horizontal_distance']))
SortThreats(ts) ==
    Items(SortByKey([i \in 1..Len(ts) |->
              << <<risk_order[ts[i].risk_level], ts[i].horizontal_distance>>, ts[i] >>]))

\* all_threats as the merge loop leaves it, before the final sort.
MergedThreats(aircraft, drones, test, rng) ==
    LET nearby == get_nearby_drones(aircraft, drones, test, rng)
    IN  IF drones = <<>> \/ nearby = <<>> THEN <<>>
        ELSE MergeLevels(<<>>, threat_levels(test), current_plane_df(aircraft),
                         nearby_drones_df(nearby))

---------------------------------------------------------------------------
(* drone_alerts/alert_translator.py: DroneAlertTranslator                  *)

\* self.danger_thresholds, km in model units.
danger_thresholds ==
    [critical |-> 5000, high |-> 10000, medium |-> 20000, low |-> 50000]

\* round(distance, 2): to the nearest 0.01 km.
RoundGridKm2 == 100
round2km(x) == RoundDiv(x, 1, RoundGridKm2)

\* plane_data.get('latitude', 0): the value, 0 when the key is absent.
get0(c) == IF isna(c) THEN 0 ELSE val(c)

\* Variant of the distance that adds the altitude difference (0.1 m units).
calculate_distance_slant(plane, drone) ==
    Abs(get0(drone.latitude) - get0(plane.latitude))
    + (Abs(get0(drone.altitude) - get0(plane.altitude)) \div 100)
\* The haversine distance of two points of the meridian: latitudes and
\* longitudes only.
calculate_distance(plane, drone) ==
    LET lat1 == get0(plane.latitude)
        lat2 == get0(drone.latitude)
    IN  Abs(lat2 - lat1)

\* Variant of the ladder with exclusive bounds.
get_danger_level_strict(distance) ==
    IF distance < danger_thresholds.critical THEN "CRITICAL"
    ELSE IF distance < danger_thresholds.high THEN "HIGH"
    ELSE IF distance < danger_thresholds.medium THEN "MEDIUM"
    ELSE IF distance < danger_thresholds.low THEN "LOW"
    ELSE "SAFE"
\* if / elif ladder of _get_danger_level.
get_danger_level(distance) ==
    IF distance <= danger_thresholds.critical THEN "CRITICAL"
    ELSE IF distance <= danger_thresholds.high THEN "HIGH"
    ELSE IF distance <= danger_thresholds.medium THEN "MEDIUM"
    ELSE IF distance <= danger_thresholds.low THEN "LOW"
    ELSE "SAFE"

\* guidance_map.get(danger_level, "Monitor surroundings"), the texts cut to
\* their headings.
generate_guidance(danger_level) ==
    CASE danger_level = "CRITICAL" -> "IMMEDIATE ACTION REQUIRED"
      [] danger_level = "HIGH" -> "HIGH ALERT"
      [] danger_level = "MEDIUM" -> "CAUTION"
      [] danger_level = "LOW" -> "ADVISORY"
      [] danger_level = "SAFE" -> "CLEAR"
      [] OTHER -> "Monitor surroundings"

\* Variant of the lookup with HIGH and MEDIUM exchanged.
get_priority_swapped(danger_level) ==
    CASE danger_level = "CRITICAL" -> 1
      [] danger_level = "HIGH" -> 3
      [] danger_level = "MEDIUM" -> 2
      [] danger_level = "LOW" -> 4
      [] OTHER -> 5
\* priority_map.get(danger_level, 5)
get_priority(danger_level) ==
    CASE danger_level = "CRITICAL" -> 1
      [] danger_level = "HIGH" -> 2
      [] danger_level = "MEDIUM" -> 3
      [] danger_level = "LOW" -> 4
      [] danger_level = "SAFE" -> 5
      [] OTHER -> 5

translate_plane_to_drone_alert(plane, drone) ==
    LET distance == calculate_distance(plane, drone)
        danger_level == get_danger_level(distance)
    IN  [danger_level |-> danger_level,
         distance_km |-> round2km(distance),
         callsign |-> plane.callsign,
         plane_altitude |-> get0(plane.altitude),
         drone_id |-> drone.drone_id,
         drone_altitude |-> get0(drone.altitude),
         guidance |-> generate_guidance(danger_level),
         priority |-> get_priority(danger_level)]

\* Variant that keeps every alert.
IsActualAlertAll(alert) == TRUE
\* "if alert['danger_level'] != 'SAFE'": the alert is kept.
IsActualAlert(alert) == alert.danger_level # "SAFE"

\* The inner loop: one drone against the planes, in plane order.
RECURSIVE DroneAlerts(_, _)
DroneAlerts(drone, planes) ==
    IF planes = <<>> THEN <<>>
    ELSE LET alert == translate_plane_to_drone_alert(Head(planes), drone)
         IN  (IF IsActualAlert(alert) THEN <<alert>> ELSE <<>>)
             \o DroneAlerts(drone, Tail(planes))

\* Variant that leaves the alerts in evaluation order.
SortAlertsNone(as) == as
\* Variant that sorts by priority and puts alerts of equal priority in the
\* reverse of their evaluation order.
SortAlertsUnstable(as) ==
    Items(SortByKey([i \in 1..Len(as) |-> << <<as[i].priority, Len(as) - i>>, as[i] >>]))
\* drone_alerts.sort(key=lambda x: x['priority'])
SortAlerts(as) ==
    Items(SortByKey([i \in 1..Len(as) |-> << <<as[i].priority>>, as[i] >>]))

\* drone_alerts[0]['danger_level'] if drone_alerts else 'SAFE'
HighestPriority(as) == IF as # <<>> THEN as[1].danger_level ELSE "SAFE"

\* The summary of one drone.
DroneSummary(drone, planes) ==
    LET drone_alerts == SortAlerts(DroneAlerts(drone, planes))
    IN  [drone_id |-> drone.drone_id,
         alerts |-> drone_alerts,
         alert_count |-> Len(drone_alerts),
         highest_priority |-> HighestPriority(drone_alerts)]

\* The list process_multiple_alerts returns when it raises nothing.
process_multiple_alerts(drones, planes) ==
    [i \in 1..Len(drones) |-> DroneSummary(drones[i], planes)]

\* lat2 - lat1 (line 83) raises TypeError when a 'latitude' key holds None
\* or another value that is not a number.
calculate_distance_raises(plane, drone) ==
    NonNumeric \in {get0(plane.latitude), get0(drone.latitude)}

\* process_multiple_alerts has no handler: the exception of the first pair
\* that fails leaves the call.
process_multiple_alerts_raises(drones, planes) ==
    \E i \in 1..Len(drones) : \E j \in 1..Len(planes) :
        calculate_distance_raises(planes[j], drones[i])

---------------------------------------------------------------------------
(* Bounds and input sets                                                   *)

MaxPlanes == 2
MaxDrones == 2
MaxSvcDrones == 3
MaxXPlanes == 3
MaxXDrones == 2
MaxCalls == 3
MaxConcPlanes == 1
MaxConcDrones == 2

\* Identifiers are unique within a batch: the i-th row carries the i-th name.
PlaneNames == <<"P1", "P2", "P3", "P4", "P5", "P6", "P7", "P8">>
DroneNames == <<"D1", "D2", "D3", "D4", "D5", "D6", "D7", "D8">>

\* Rows of the plane batch, without the identifier: two complete rows 0.5 km
\* apart at 200 m, and rows with a null mandatory cell.
PlaneShapes ==
    {[idnull |-> FALSE, latitude |-> Some(lat), longitude |-> Some(0),
      baro_altitude |-> Some(200000)] : lat \in {0, 5000}}
    \cup {[idnull |-> FALSE, latitude |-> Null, longitude |-> Some(0),
           baro_altitude |-> Some(200000)],
          [idnull |-> FALSE, latitude |-> Some(0), longitude |-> Some(0),
           baro_altitude |-> Null]}

\* Rows of the drone batch, without the identifier: 6 m from the first plane,
\* exactly 0.5 km from it and 0.1 m beyond; 9.996 m below the planes, exactly
\* 100 m below and 100.01 m below; and rows with a null mandatory cell.
DroneShapes ==
    {[idnull |-> FALSE, latitude |-> Some(lat), longitude |-> Some(0),
      altitude |-> Some(alt)] : lat \in {60, 5000, 5001}, alt \in {190004, 100000}}
    \cup {[idnull |-> FALSE, latitude |-> Some(60), longitude |-> Some(0),
           altitude |-> Some(99990)],
          [idnull |-> TRUE, latitude |-> Some(60), longitude |-> Some(0),
           altitude |-> Some(190004)],
          [idnull |-> FALSE, latitude |-> Some(60), longitude |-> Null,
           altitude |-> Some(190004)]}

PlaneBatch(shapes) ==
    [i \in 1..Len(shapes) |->
        [icao24 |-> IF shapes[i].idnull THEN Null ELSE Some(PlaneNames[i]),
         latitude |-> shapes[i].latitude, longitude |-> shapes[i].longitude,
         baro_altitude |-> shapes[i].baro_altitude]]
DroneBatch(shapes) ==
    [i \in 1..Len(shapes) |->
        [drone_id |-> IF shapes[i].idnull THEN Null ELSE Some(DroneNames[i]),
         latitude |-> shapes[i].latitude, longitude |-> shapes[i].longitude,
         altitude |-> shapes[i].altitude]]

\* The thresholds of a call: the defaults of detect_collisions (0.5 km,
\* 100 m) and the critical tier of the test mode (0.1 km, 30 m).
ThresholdPairs == {[h |-> 5000, v |-> 100000], [h |-> 1000, v |-> 30000]}

\* The drones of the dashboard service (no null cells: the test scenario is
\* complete and load_real_data drops rows with nulls): north and south of
\* the aircraft, from 30 m to 20 km, 10 m and 110 m below it.
SvcDroneShapes ==
    {[idnull |-> FALSE, latitude |-> Some(lat), longitude |-> Some(0),
      altitude |-> Some(alt)] :
        lat \in {400, -300, 2500, 12000, 200000}, alt \in {190000, 90000}}
SvcAircraft == [icao24 |-> "A1", latitude |-> 0, longitude |-> 0, altitude |-> 200000]
SvcRanges == {10}

\* The dicts handed to the translator: planes on the ladder's rungs, just
\* above them and between them, one without a 'latitude' key, one whose
\* 'latitude' is None; drones at the origin and 10 m north of it.
XPlaneLats == {Some(3000), Some(5000), Some(5001), Some(15000), Some(50000),
               Some(50001), Null, Some(NonNumeric)}
XDroneLats == {Some(0), Some(100)}
XPlanes(lats) ==
    [i \in 1..Len(lats) |->
        [callsign |-> PlaneNames[i], latitude |-> lats[i], altitude |-> Some(200000)]]
XDrones(lats) ==
    [i \in 1..Len(lats) |->
        [drone_id |-> DroneNames[i], latitude |-> lats[i], altitude |-> Some(190000)]]

\* The single pairs handed to translate_plane_to_drone_alert: every rung of
\* the ladder, one unit below and one unit above it.
OnePlaneLats == {Some(0), Some(4999), Some(5000), Some(5001), Some(9999), Some(10000),
                 Some(10001), Some(19999), Some(20000), Some(20001), Some(49999),
                 Some(50000), Some(50001), Some(80000), Null}
OneDroneLats == {Some(0), Some(1), Some(-1), Some(100), Null}
\* Their altitudes: 200 m, 12 m, and no 'altitude' key.
OneAltitudes == {Some(200000), Some(12000), Null}

\* Batches with faults: rows whose altitude is not a number, rows with a
\* coordinate that is not finite, rows with a null cell, next to rows that
\* compare cleanly (6 m and 0.5001 km from the plane at latitude 0).
RobustPlaneShapes ==
    {[idnull |-> FALSE, latitude |-> Some(0), longitude |-> Some(0),
      baro_altitude |-> Some(200000)],
     [idnull |-> FALSE, latitude |-> Null, longitude |-> Some(0),
      baro_altitude |-> Some(200000)],
     [idnull |-> FALSE, latitude |-> Some(0), longitude |-> Some(0),
      baro_altitude |-> Some(NonNumeric)]}
RobustDroneShapes ==
    {[idnull |-> FALSE, latitude |-> Some(lat), longitude |-> Some(0),
      altitude |-> Some(190004)] : lat \in {60, 5001, Inf}}
    \cup {[idnull |-> FALSE, latitude |-> Some(60), longitude |-> Some(0),
           altitude |-> Some(NonNumeric)],
          [idnull |-> FALSE, latitude |-> Null, longitude |-> Some(0),
           altitude |-> Some(190004)]}

\* The columns a batch may come with: all mandatory ones, or some absent.
PlaneColumnSets == {required_plane_cols, required_plane_cols \ {"latitude"},
                    required_plane_cols \ {"latitude", "baro_altitude"}}
DroneColumnSets == {required_drone_cols, required_drone_cols \ {"altitude"}}
\* A batch restricted to the given columns: an absent column has no cells.
WithColumns(batch, columns) ==
    [i \in 1..Len(batch) |->
        [f \in DOMAIN batch[i] |-> IF f \in columns THEN batch[i][f] ELSE Null]]

\* The default thresholds of detect_collisions (0.5 km, 100 m).
DefaultThresholds == [h |-> 5000, v |-> 100000]

\* The batches of a caller that calls repeatedly: a plane row, a drone
\* within the thresholds of both kinds of call, a drone within the default
\* thresholds only, and rows with a null cell.
RepeatPlaneShapes ==
    {[idnull |-> FALSE, latitude |-> Some(0), longitude |-> Some(0),
      baro_altitude |-> Some(200000)],
     [idnull |-> FALSE, latitude |-> Null, longitude |-> Some(0),
      baro_altitude |-> Some(200000)]}
RepeatDroneShapes ==
    {[idnull |-> FALSE, latitude |-> Some(60), longitude |-> Some(0),
      altitude |-> Some(190004)],
     [idnull |-> FALSE, latitude |-> Some(5000), longitude |-> Some(0),
      altitude |-> Some(100000)],
     [idnull |-> FALSE, latitude |-> Some(60), longitude |-> Null,
      altitude |-> Some(190004)]}
\* Its dicts for the translator: planes at 1.5 km, 0.3 km and 5.0001 km.
RepeatXDroneLats == <<Some(0), Some(100)>>
RepeatXPlaneLats == <<Some(15000), Some(3000), Some(50001)>>

\* The batches of two concurrent calls: a plane at latitude 0 and 200 m;
\* drones 6 m from it, 0.5001 km from it, and with a null latitude.  The
\* rows of the second call carry other identifiers than those of the first.
ConcPlaneShapes ==
    {[idnull |-> FALSE, latitude |-> Some(0), longitude |-> Some(0),
      baro_altitude |-> Some(200000)]}
ConcDroneShapes ==
    {[idnull |-> FALSE, latitude |-> lat, longitude |-> Some(0),
      altitude |-> Some(190004)] : lat \in {Some(60), Some(5001), Null}}
ConcPlaneBatch(shapes, k) ==
    [i \in 1..Len(shapes) |->
        [PlaneBatch(shapes)[i] EXCEPT
            !.icao24 = Some(PlaneNames[i + (k - 1) * MaxConcPlanes])]]
ConcDroneBatch(shapes, k) ==
    [i \in 1..Len(shapes) |->
        [DroneBatch(shapes)[i] EXCEPT
            !.drone_id = Some(DroneNames[i + (k - 1) * MaxConcDrones])]]

\* The scenario of one aircraft at (40.7128, -74.0060, 200 m) and one drone
\* at (40.71285, -74.00605, 190 m).  The WGS-84 geodesic between the two
\* points is 6.977 m long (5.552 m north, 4.225 m east); on the meridian of
\* the model the drone lies 70 units (7.0 m, the nearest 0.1 m) from the
\* aircraft.  Around it: drones exactly at and just beyond the default
\* thresholds.
ScenarioPlane ==
    [idnull |-> FALSE, latitude |-> Some(0), longitude |-> Some(0),
     baro_altitude |-> Some(200000)]
ScenarioDrone ==
    [idnull |-> FALSE, latitude |-> Some(70), longitude |-> Some(0),
     altitude |-> Some(190000)]
ScenarioDroneShapes ==
    {[idnull |-> FALSE, latitude |-> Some(lat), longitude |-> Some(0),
      altitude |-> Some(alt)] : lat \in {70, 5000, 5001}, alt \in {190000, 100000, 99990}}

---------------------------------------------------------------------------
(* States of the components that a specification does not exercise         *)

DetectIdle ==
    /\ planes_df = <<>> /\ drones_df = <<>> /\ h_threshold = 0 /\ v_threshold = 0
    /\ alerts = <<>> /\ summary = <<>> /\ pc = "idle"
    /\ planes_columns = required_plane_cols /\ drones_columns = required_drone_cols
    /\ raised = <<>> /\ stdout = <<>>
    /\ history = <<>> /\ invocation = <<>> /\ lists = <<>>
TierIdle ==
    /\ use_test_data = TRUE /\ svc_drones_df = <<>> /\ current_aircraft = SvcAircraft
    /\ range_nm = 0 /\ all_threats = <<>> /\ threats = <<>> /\ tpc = "idle"
XlatIdle ==
    /\ drone_data = <<>> /\ plane_data = <<>> /\ all_alerts = <<>>
    /\ one_plane = <<>> /\ one_drone = <<>> /\ one_alert = <<>> /\ xpc = "idle"

DistIdle ==
    /\ arg_point1 = <<>> /\ arg_point2 = <<>> /\ arg_altitude1 = 0 /\ arg_altitude2 = 0
    /\ ret_distance = <<>> /\ fpc = "idle"
SvcIdle ==
    /\ test_planes_df = <<>> /\ test_drones_df = <<>>
    /\ real_planes_df = <<>> /\ real_drones_df = <<>>
    /\ svc_planes_df = <<>> /\ current_aircraft_callsign = <<>>
    /\ additional_drones = <<>> /\ base_drones = <<>> /\ for_index = 0
    /\ aircraft_returned = {} /\ spc = "unused"
ExtraIdle == DistIdle /\ SvcIdle

---------------------------------------------------------------------------
(* detect_collisions followed by get_collision_summary (main.py, demo.py)  *)

InitDetect ==
    /\ \E ps \in SeqUpTo(PlaneShapes, MaxPlanes) : planes_df = PlaneBatch(ps)
    /\ \E ds \in SeqUpTo(DroneShapes, MaxDrones) : drones_df = DroneBatch(ds)
    /\ \E t \in ThresholdPairs : h_threshold = t.h /\ v_threshold = t.v
    /\ planes_columns = required_plane_cols /\ drones_columns = required_drone_cols
    /\ alerts = <<>> /\ summary = <<>> /\ pc = "start"
    /\ raised = <<>> /\ stdout = <<>>
    /\ history = <<>> /\ invocation = <<>> /\ lists = <<>>
    /\ TierIdle /\ XlatIdle
    /\ ExtraIdle

\* One call.  When it raises, no list is returned: alerts keeps its value.
DetectCollisions ==
    /\ pc = "start"
    /\ LET e == detect_raises(planes_df, drones_df, planes_columns, drones_columns)
       IN  /\ raised' = e
           /\ IF e # <<>>
              THEN alerts' = alerts /\ stdout' = <<>> /\ pc' = "raised"
              ELSE /\ alerts' = detect_collisions(planes_df, drones_df,
                                                  h_threshold, v_threshold)
                   /\ stdout' = detect_prints(planes_df, drones_df,
                                              h_threshold, v_threshold)
                   /\ pc' = "detected"
    /\ UNCHANGED <<planes_df, drones_df, h_threshold, v_threshold, summary,
                   planes_columns, drones_columns, callVars>>
    /\ UNCHANGED <<tierVars, xlatVars, extraVars>>

GetCollisionSummary ==
    /\ pc = "detected"
    /\ summary' = get_collision_summary(alerts)
    /\ pc' = "summarized"
    /\ UNCHANGED <<planes_df, drones_df, h_threshold, v_threshold, alerts,
                   planes_columns, drones_columns, raised, stdout, callVars>>
    /\ UNCHANGED <<tierVars, xlatVars, extraVars>>

NextDetect == DetectCollisions \/ GetCollisionSummary
SpecDetect == InitDetect /\ [][NextDetect]_vars

---------------------------------------------------------------------------
(* detect_collisions on batches with absent columns and faulty cells       *)

InitRobust ==
    /\ planes_columns \in PlaneColumnSets
    /\ drones_columns \in DroneColumnSets
    /\ \E ps \in SeqUpTo(RobustPlaneShapes, MaxPlanes) :
          planes_df = WithColumns(PlaneBatch(ps), planes_columns)
    /\ \E ds \in SeqUpTo(RobustDroneShapes, MaxDrones) :
          drones_df = WithColumns(DroneBatch(ds), drones_columns)
    /\ h_threshold = DefaultThresholds.h /\ v_threshold = DefaultThresholds.v
    /\ alerts = <<>> /\ summary = <<>> /\ pc = "start"
    /\ raised = <<>> /\ stdout = <<>>
    /\ history = <<>> /\ invocation = <<>> /\ lists = <<>>
    /\ TierIdle /\ XlatIdle
    /\ ExtraIdle

SpecRobust == InitRobust /\ [][NextDetect]_vars

---------------------------------------------------------------------------
(* A caller that calls detect_collisions and process_multiple_alerts       *)
(* again and again on the same objects (PilotDashboardService calls        *)
(* detect_collisions once per tier on the same frames)                     *)

InitRepeat ==
    /\ \E ps \in SeqUpTo(RepeatPlaneShapes, MaxPlanes) : planes_df = PlaneBatch(ps)
    /\ \E ds \in SeqUpTo(RepeatDroneShapes, MaxDrones) : drones_df = DroneBatch(ds)
    /\ planes_columns = required_plane_cols /\ drones_columns = required_drone_cols
    /\ h_threshold = DefaultThresholds.h /\ v_threshold = DefaultThresholds.v
    /\ alerts = <<>> /\ summary = <<>> /\ pc = "start"
    /\ raised = <<>> /\ stdout = <<>>
    /\ history = <<>> /\ invocation = <<>> /\ lists = <<>>
    /\ drone_data = XDrones(RepeatXDroneLats) /\ plane_data = XPlanes(RepeatXPlaneLats)
    /\ all_alerts = <<>> /\ xpc = "start"
    /\ one_plane = <<>> /\ one_drone = <<>> /\ one_alert = <<>>
    /\ TierIdle
    /\ ExtraIdle

\* A call of detect_collisions with the thresholds t; the caller notes the
\* arguments, what the arguments are after the call and the result.
CallDetectCollisions(t) ==
    /\ Len(history) < MaxCalls
    /\ h_threshold' = t.h /\ v_threshold' = t.v
    /\ LET e == detect_raises(planes_df, drones_df, planes_columns, drones_columns)
       IN  /\ raised' = e
           /\ IF e # <<>>
              THEN alerts' = alerts /\ stdout' = <<>> /\ pc' = "raised"
              ELSE /\ alerts' = detect_collisions(planes_df, drones_df, t.h, t.v)
                   /\ stdout' = detect_prints(planes_df, drones_df, t.h, t.v)
                   /\ pc' = "detected"
    /\ UNCHANGED <<planes_df, drones_df, summary, planes_columns, drones_columns>>
    /\ history' = Append(history,
                         [call |-> "detect_collisions",
                          args |-> <<planes_df, drones_df, t.h, t.v>>,
                          args_after |-> <<planes_df', drones_df', t.h, t.v>>,
                          raised |-> raised' # <<>>,
                          result |-> alerts'])
    /\ UNCHANGED <<invocation, lists>>
    /\ UNCHANGED <<tierVars, xlatVars, extraVars>>

\* A call of process_multiple_alerts, noted in the same way.
CallProcessMultipleAlerts ==
    /\ Len(history) < MaxCalls
    /\ IF process_multiple_alerts_raises(drone_data, plane_data)
       THEN all_alerts' = all_alerts /\ xpc' = "raised"
       ELSE /\ all_alerts' = process_multiple_alerts(drone_data, plane_data)
            /\ xpc' = "processed"
    /\ UNCHANGED <<drone_data, plane_data, one_plane, one_drone, one_alert>>
    /\ history' = Append(history,
                         [call |-> "process_multiple_alerts",
                          args |-> <<drone_data, plane_data>>,
                          args_after |-> <<drone_data', plane_data'>>,
                          raised |-> xpc' = "raised",
                          result |-> all_alerts'])
    /\ UNCHANGED <<planes_df, drones_df, h_threshold, v_threshold, alerts, summary, pc,
                   planes_columns, drones_columns, raised, stdout, invocation, lists>>
    /\ UNCHANGED <<tierVars, extraVars>>

NextRepeat ==
    \/ \E t \in ThresholdPairs : CallDetectCollisions(t)
    \/ CallProcessMultipleAlerts
SpecRepeat == InitRepeat /\ [][NextRepeat]_vars

---------------------------------------------------------------------------
(* Two calls of detect_collisions that run concurrently (request threads   *)
(* of the Flask application), one loop iteration at a time                 *)

Invocations == {1, 2}

\* Variant in which the two frames append to one list.
AlertsRefShared(k) == 1
\* The list the name `alerts` of frame k refers to: alerts = [] (line 77)
\* binds a local name to a list of the frame's own.
AlertsRef(k) == k

InitConc ==
    /\ \E ps \in [Invocations -> SeqUpTo(ConcPlaneShapes, MaxConcPlanes)] :
       \E ds \in [Invocations -> SeqUpTo(ConcDroneShapes, MaxConcDrones)] :
          invocation = [k \in Invocations |->
                           [planes_df |-> ConcPlaneBatch(ps[k], k),
                            drones_df |-> ConcDroneBatch(ds[k], k),
                            planes_clean |-> <<>>, drones_clean |-> <<>>,
                            plane_idx |-> 1, drone_idx |-> 1,
                            pc |-> "entry", returned |-> <<>>]]
    /\ lists = [k \in Invocations |-> <<>>]
    /\ planes_df = <<>> /\ drones_df = <<>>
    /\ h_threshold = DefaultThresholds.h /\ v_threshold = DefaultThresholds.v
    /\ planes_columns = required_plane_cols /\ drones_columns = required_drone_cols
    /\ alerts = <<>> /\ summary = <<>> /\ pc = "idle"
    /\ raised = <<>> /\ stdout = <<>> /\ history = <<>>
    /\ TierIdle /\ XlatIdle
    /\ ExtraIdle

\* Lines 77-104: the new list, the validation and the cleaning.
Enter(k) ==
    LET f == invocation[k]
        ls == [lists EXCEPT ![AlertsRef(k)] = NewAlertList]
    IN  /\ f.pc = "entry"
        /\ lists' = ls
        /\ invocation' =
              [invocation EXCEPT ![k] =
                  IF f.planes_df = <<>> \/ f.drones_df = <<>>
                  THEN [f EXCEPT !.pc = "returned", !.returned = ls[AlertsRef(k)]]
                  ELSE IF detect_raises(f.planes_df, f.drones_df,
                                        planes_columns, drones_columns) # <<>>
                  THEN [f EXCEPT !.pc = "raised"]
                  ELSE [f EXCEPT !.pc = "scan",
                                 !.planes_clean = planes_clean(f.planes_df),
                                 !.drones_clean = drones_clean(f.drones_df)]]
        /\ UNCHANGED <<planes_df, drones_df, h_threshold, v_threshold, alerts, summary,
                       pc, planes_columns, drones_columns, raised, stdout, history>>
        /\ UNCHANGED <<tierVars, xlatVars, extraVars>>

\* Lines 106-143: one iteration of the inner loop.
ScanPair(k) ==
    LET f == invocation[k]
    IN  /\ f.pc = "scan"
        /\ f.plane_idx <= Len(f.planes_clean)
        /\ f.drone_idx <= Len(f.drones_clean)
        /\ LET plane == f.planes_clean[f.plane_idx]
               drone == f.drones_clean[f.drone_idx]
               found == IF PairRaises(plane, drone) THEN <<>>
                        ELSE PairAlert(plane, drone, h_threshold, v_threshold)
           IN  lists' = [lists EXCEPT ![AlertsRef(k)] = @ \o found]
        /\ invocation' =
              [invocation EXCEPT ![k] =
                  IF f.drone_idx < Len(f.drones_clean)
                  THEN [f EXCEPT !.drone_idx = @ + 1]
                  ELSE [f EXCEPT !.plane_idx = @ + 1, !.drone_idx = 1]]
        /\ UNCHANGED <<planes_df, drones_df, h_threshold, v_threshold, alerts, summary,
                       pc, planes_columns, drones_columns, raised, stdout, history>>
        /\ UNCHANGED <<tierVars, xlatVars, extraVars>>

\* Lines 145-148: the loops are over, the list is returned.
Return(k) ==
    LET f == invocation[k]
    IN  /\ f.pc = "scan"
        /\ f.plane_idx > Len(f.planes_clean) \/ f.drones_clean = <<>>
        /\ invocation' = [invocation EXCEPT ![k] =
                              [f EXCEPT !.pc = "returned",
                                        !.returned = lists[AlertsRef(k)]]]
        /\ UNCHANGED lists
        /\ UNCHANGED <<planes_df, drones_df, h_threshold, v_threshold, alerts, summary,
                       pc, planes_columns, drones_columns, raised, stdout, history>>
        /\ UNCHANGED <<tierVars, xlatVars, extraVars>>

NextConc == \E k \in Invocations : Enter(k) \/ ScanPair(k) \/ Return(k)
SpecConc == InitConc /\ [][NextConc]_vars

---------------------------------------------------------------------------
(* The two distance functions, called on a pair of points in both orders   *)

\* Latitudes on the meridian, south and north of the origin, and one that
\* is not finite; altitudes below and above sea level.
FnLatitudes == {-5000, 0, 60, 5000, Inf}
FnAltitudes == {-100000, 0, 99990, 100000, 200000}

InitDistance ==
    /\ \E lat \in FnLatitudes : arg_point1 = <<lat, 0>>
    /\ \E lat \in FnLatitudes : arg_point2 = <<lat, 0>>
    /\ arg_altitude1 \in FnAltitudes /\ arg_altitude2 \in FnAltitudes
    /\ ret_distance = <<>> /\ fpc = "start"
    /\ DetectIdle /\ TierIdle /\ XlatIdle /\ SvcIdle

CalculateDistances ==
    /\ fpc = "start"
    /\ ret_distance' =
          [h12 |-> calculate_horizontal_distance(arg_point1[1], arg_point1[2],
                                                 arg_point2[1], arg_point2[2]),
           h21 |-> calculate_horizontal_distance(arg_point2[1], arg_point2[2],
                                                 arg_point1[1], arg_point1[2]),
           v12 |-> calculate_vertical_distance(arg_altitude1, arg_altitude2),
           v21 |-> calculate_vertical_distance(arg_altitude2, arg_altitude1)]
    /\ fpc' = "returned"
    /\ UNCHANGED <<arg_point1, arg_point2, arg_altitude1, arg_altitude2>>
    /\ UNCHANGED <<detectVars, tierVars, xlatVars, svcVars>>

NextDistance == CalculateDistances
SpecDistance == InitDistance /\ [][NextDistance]_vars

---------------------------------------------------------------------------
(* detect_collisions on one aircraft and the drones around it              *)

InitScenario ==
    /\ planes_df = PlaneBatch(<<ScenarioPlane>>)
    /\ \E ds \in SeqUpTo(ScenarioDroneShapes, MaxDrones) : drones_df = DroneBatch(ds)
    /\ \E t \in ThresholdPairs : h_threshold = t.h /\ v_threshold = t.v
    /\ planes_columns = required_plane_cols /\ drones_columns = required_drone_cols
    /\ alerts = <<>> /\ summary = <<>> /\ pc = "start"
    /\ raised = <<>> /\ stdout = <<>>
    /\ history = <<>> /\ invocation = <<>> /\ lists = <<>>
    /\ TierIdle /\ XlatIdle
    /\ ExtraIdle

SpecScenario == InitScenario /\ [][NextDetect]_vars

---------------------------------------------------------------------------
(* PilotDashboardService.get_collision_threats                             *)

InitTier ==
    /\ use_test_data \in BOOLEAN
    /\ \E ds \in SeqUpTo(SvcDroneShapes, MaxSvcDrones) : svc_drones_df = DroneBatch(ds)
    /\ current_aircraft = SvcAircraft
    /\ range_nm \in SvcRanges
    /\ all_threats = <<>> /\ threats = <<>> /\ tpc = "start"
    /\ DetectIdle /\ XlatIdle
    /\ ExtraIdle

\* The call returns the sorted list.
GetCollisionThreatsReturns ==
    /\ tpc = "start"
    /\ LET merged == MergedThreats(current_aircraft, svc_drones_df, use_test_data, range_nm)
       IN  /\ ~SortRaises(merged)
           /\ all_threats' = SortThreats(merged)
           /\ threats' = SortThreats(merged)
    /\ tpc' = "returned"
    /\ UNCHANGED <<use_test_data, svc_drones_df, current_aircraft, range_nm>>
    /\ UNCHANGED <<detectVars, xlatVars, extraVars>>

\* The sort key raises KeyError: the call returns nothing, all_threats is
\* left as the merge loop built it.
GetCollisionThreatsRaises ==
    /\ tpc = "start"
    /\ LET merged == MergedThreats(current_aircraft, svc_drones_df, use_test_data, range_nm)
       IN  /\ SortRaises(merged)
           /\ all_threats' = merged
    /\ threats' = <<>>
    /\ tpc' = "raised"
    /\ UNCHANGED <<use_test_data, svc_drones_df, current_aircraft, range_nm>>
    /\ UNCHANGED <<detectVars, xlatVars, extraVars>>

NextTier == GetCollisionThreatsReturns \/ GetCollisionThreatsRaises
SpecTier == InitTier /\ [][NextTier]_vars

---------------------------------------------------------------------------
(* DroneAlertTranslator.process_multiple_alerts                            *)

InitXlat ==
    /\ \E ls \in SeqUpTo(XDroneLats, MaxXDrones) : drone_data = XDrones(ls)
    /\ \E ls \in SeqUpTo(XPlaneLats, MaxXPlanes) : plane_data = XPlanes(ls)
    /\ all_alerts = <<>> /\ xpc = "start"
    /\ one_plane = <<>> /\ one_drone = <<>> /\ one_alert = <<>>
    /\ DetectIdle /\ TierIdle
    /\ ExtraIdle

\* One call.  When it raises, no list is returned: all_alerts keeps its
\* value.
ProcessMultipleAlerts ==
    /\ xpc = "start"
    /\ IF process_multiple_alerts_raises(drone_data, plane_data)
       THEN all_alerts' = all_alerts /\ xpc' = "raised"
       ELSE /\ all_alerts' = process_multiple_alerts(drone_data, plane_data)
            /\ xpc' = "processed"
    /\ UNCHANGED <<drone_data, plane_data, one_plane, one_drone, one_alert>>
    /\ UNCHANGED <<detectVars, tierVars, extraVars>>

NextXlat == ProcessMultipleAlerts
SpecXlat == InitXlat /\ [][NextXlat]_vars

---------------------------------------------------------------------------
(* DroneAlertTranslator.translate_plane_to_drone_alert on one pair         *)

InitOne ==
    /\ \E lat \in OnePlaneLats : \E alt \in OneAltitudes :
          one_plane = [callsign |-> "P1", latitude |-> lat, altitude |-> alt]
    /\ \E lat \in OneDroneLats : \E alt \in OneAltitudes :
          one_drone = [drone_id |-> "D1", latitude |-> lat, altitude |-> alt]
    /\ one_alert = <<>> /\ xpc = "start"
    /\ drone_data = <<>> /\ plane_data = <<>> /\ all_alerts = <<>>
    /\ DetectIdle /\ TierIdle
    /\ ExtraIdle

TranslatePlaneToDroneAlert ==
    /\ xpc = "start"
    /\ one_alert' = translate_plane_to_drone_alert(one_plane, one_drone)
    /\ xpc' = "translated"
    /\ UNCHANGED <<drone_data, plane_data, all_alerts, one_plane, one_drone>>
    /\ UNCHANGED <<detectVars, tierVars, extraVars>>

NextOne == TranslatePlaneToDroneAlert
SpecOne == InitOne /\ [][NextOne]_vars

---------------------------------------------------------------------------
(* Properties of detect_collisions                                         *)

\* The horizontal and vertical distance of the i-th plane row and the j-th
\* drone row, both complete.
PairH(i, j) == Abs(val(planes_df[i].latitude) - val(drones_df[j].latitude))
PairV(i, j) == Abs(val(planes_df[i].baro_altitude) - val(drones_df[j].altitude))
CompletePlanes == {i \in DOMAIN planes_df :
                     /\ planes_df[i].icao24 # {} /\ planes_df[i].latitude # {}
                     /\ planes_df[i].longitude # {} /\ planes_df[i].baro_altitude # {}}
CompleteDrones == {j \in DOMAIN drones_df :
                     /\ drones_df[j].drone_id # {} /\ drones_df[j].latitude # {}
                     /\ drones_df[j].longitude # {} /\ drones_df[j].altitude # {}}
\* The alerts of the pair (i, j).
AlertsOf(i, j) == {k \in DOMAIN alerts :
                     /\ alerts[k].plane_icao24 = PlaneNames[i]
                     /\ alerts[k].drone_id = DroneNames[j]}
Detected == pc \in {"detected", "summarized"}

\* C1: after detect_collisions, every pair of the cleaned batches has exactly
\* one alert when its horizontal distance is <= h_threshold and its vertical
\* distance is <= v_threshold (both inclusive), and no alert otherwise; there
\* are no other alerts.
C1_AlertIffWithinBothThresholds ==
    Detected =>
        /\ \A i \in CompletePlanes : \A j \in CompleteDrones :
              Cardinality(AlertsOf(i, j)) =
                  IF PairH(i, j) <= h_threshold /\ PairV(i, j) <= v_threshold
                  THEN 1 ELSE 0
        /\ Len(alerts) = Cardinality({ij \in CompletePlanes \X CompleteDrones :
                                        /\ PairH(ij[1], ij[2]) <= h_threshold
                                        /\ PairV(ij[1], ij[2]) <= v_threshold})

\* A detection run with a pair exactly at both thresholds, alerted, and a
\* pair beyond the horizontal threshold by one unit, not alerted.
C1_Witness ==
    /\ Detected
    /\ \E i \in CompletePlanes : \E j \in CompleteDrones :
          /\ PairH(i, j) = h_threshold /\ PairV(i, j) = v_threshold
          /\ Cardinality(AlertsOf(i, j)) = 1
    /\ \E i \in CompletePlanes : \E j \in CompleteDrones :
          /\ PairH(i, j) = h_threshold + 1 /\ PairV(i, j) <= v_threshold
          /\ AlertsOf(i, j) = {}

---------------------------------------------------------------------------
(* Properties of get_collision_threats                                     *)

Called == tpc \in {"returned", "raised"}

\* The candidates of the call: the drones of the service within the
\* effective range of the aircraft (the model never exceeds max_drones).
Candidates ==
    {j \in DOMAIN svc_drones_df :
        Abs(val(svc_drones_df[j].latitude) - current_aircraft.latitude)
            <= (IF use_test_data THEN range_nm ELSE 2 * range_nm) * NmUnits}
CandH(j) == Abs(val(svc_drones_df[j].latitude) - current_aircraft.latitude)
CandV(j) == Abs(val(svc_drones_df[j].altitude) - current_aircraft.altitude)
Tiers == threat_levels(use_test_data)
\* Candidate j satisfies both thresholds of tier n.
Satisfies(j, n) == CandH(j) <= Tiers[n].h_threshold /\ CandV(j) <= Tiers[n].v_threshold
\* The first tier candidate j satisfies, 0 when it satisfies none.
FirstTier(j) ==
    IF \E n \in DOMAIN Tiers : Satisfies(j, n)
    THEN CHOOSE n \in DOMAIN Tiers :
            Satisfies(j, n) /\ \A m \in 1..(n - 1) : ~Satisfies(j, m)
    ELSE 0
IdsUnique(ts) == \A a, b \in DOMAIN ts : ts[a].id = ts[b].id => a = b

\* C2: first tier wins.  In the merged list and in the returned list every
\* drone id appears at most once, and a candidate that satisfies a stricter
\* and a looser tier has no threat under the looser one.
C2_FirstTierWins ==
    Called =>
        /\ IdsUnique(all_threats) /\ IdsUnique(threats)
        /\ \A j \in Candidates : \A n, m \in DOMAIN Tiers :
              (n < m /\ Satisfies(j, n) /\ Satisfies(j, m)) =>
                  /\ \A k \in DOMAIN all_threats :
                        all_threats[k].id = DroneNames[j]
                            => all_threats[k].risk_level # Tiers[m].name
                  /\ \A k \in DOMAIN threats :
                        threats[k].id = DroneNames[j]
                            => threats[k].risk_level # Tiers[m].name

\* A returned list of two threats, one for a candidate that satisfies its
\* tier and a looser one.
C2_Witness ==
    /\ tpc = "returned" /\ Len(threats) >= 2
    /\ \E j \in Candidates : \E n, m \in DOMAIN Tiers :
          /\ n < m /\ Satisfies(j, n) /\ Satisfies(j, m)
          /\ \E k \in DOMAIN threats :
                threats[k].id = DroneNames[j] /\ threats[k].risk_level = Tiers[n].name

\* Every threat of ts carries the first tier its candidate satisfies, and
\* the ids of ts are those of the candidates that satisfy some tier.
HighestClassification(ts) ==
    /\ {ts[k].id : k \in DOMAIN ts}
          = {DroneNames[j] : j \in {c \in Candidates : FirstTier(c) # 0}}
    /\ \A k \in DOMAIN ts : \A j \in Candidates :
          ts[k].id = DroneNames[j]
              => FirstTier(j) # 0 /\ ts[k].risk_level = Tiers[FirstTier(j)].name

\* C3: tiered detection reports every candidate that satisfies at least one
\* tier, and only those, each under the first tier it satisfies.
C3_HighestSeverityClassification == Called => HighestClassification(threats)

\* The merge loop itself classifies as C3 says; the calls that return give
\* that classification.
C3_MergeLoopClassifies ==
    Called => /\ HighestClassification(all_threats)
              /\ tpc = "returned" => HighestClassification(threats)

\* The rank of a tier name: its place in the tier list of the mode.
TierRank(name) == CHOOSE n \in DOMAIN Tiers : Tiers[n].name = name
SortedBySeverityThenDistance(ts) ==
    \A a, b \in DOMAIN ts :
        a < b => \/ TierRank(ts[a].risk_level) < TierRank(ts[b].risk_level)
                 \/ /\ ts[a].risk_level = ts[b].risk_level
                    /\ ts[a].horizontal_distance <= ts[b].horizontal_distance

\* C4: in the test mode and in the real mode the call returns its threats
\* sorted by tier severity, then by horizontal distance.
C4_ThreatsSorted ==
    Called => tpc = "returned" /\ SortedBySeverityThenDistance(threats)

\* The calls that return do return a sorted list.
C4_ReturnedThreatsSorted ==
    tpc = "returned" => SortedBySeverityThenDistance(threats)

---------------------------------------------------------------------------
(* Properties of the alert translator                                      *)

\* The severity order of the danger levels, most severe first.
LevelOrder == <<"CRITICAL", "HIGH", "MEDIUM", "LOW", "SAFE">>
Levels == {LevelOrder[n] : n \in DOMAIN LevelOrder}
LevelRank(level) == CHOOSE n \in DOMAIN LevelOrder : LevelOrder[n] = level

\* The ladder of the specification, on a distance in model units.
Ladder(d) ==
    IF d <= 5000 THEN "CRITICAL" ELSE IF d <= 10000 THEN "HIGH"
    ELSE IF d <= 20000 THEN "MEDIUM" ELSE IF d <= 50000 THEN "LOW" ELSE "SAFE"

\* The latitude of a dict, 0 when it has none.
LatOf(r) == IF r.latitude = {} THEN 0 ELSE CHOOSE v \in r.latitude : TRUE
\* The distance of the j-th plane and the i-th drone handed to the translator.
XDist(i, j) == Abs(LatOf(plane_data[j]) - LatOf(drone_data[i]))
Processed == xpc = "processed"

\* C5: in every drone summary the alerts are in non-decreasing priority
\* order (CRITICAL, HIGH, MEDIUM, LOW) and highest_priority is the level of
\* the first alert, SAFE when there is none.
C5_SummarySortedByPriority ==
    Processed =>
        \A i \in DOMAIN all_alerts :
            LET as == all_alerts[i].alerts
            IN  /\ \A a, b \in DOMAIN as :
                      a < b => LevelRank(as[a].danger_level) <= LevelRank(as[b].danger_level)
                /\ all_alerts[i].highest_priority
                      = IF as = <<>> THEN "SAFE" ELSE as[1].danger_level

\* A drone whose planes were evaluated MEDIUM, CRITICAL, HIGH (priorities
\* 3, 1, 2) and whose summary holds them as 1, 2, 3.
C5_Witness ==
    /\ Processed
    /\ \E i \in DOMAIN all_alerts :
          /\ Len(plane_data) = 3
          /\ <<Ladder(XDist(i, 1)), Ladder(XDist(i, 2)), Ladder(XDist(i, 3))>>
                = <<"MEDIUM", "CRITICAL", "HIGH">>
          /\ [k \in 1..3 |-> all_alerts[i].alerts[k].priority] = <<1, 2, 3>>
          /\ all_alerts[i].highest_priority = "CRITICAL"

\* The alerts of the i-th summary that come from the j-th plane.
XAlertsOf(i, j) == {k \in DOMAIN all_alerts[i].alerts :
                      all_alerts[i].alerts[k].callsign = PlaneNames[j]}

\* C6: one summary per drone; its alerts hold exactly one alert for every
\* plane within 5.0 km of the drone and none for the other planes, no alert
\* is SAFE, and alert_count is the length of the list.
C6_OnlyNonSafeAlertsKept ==
    Processed =>
        /\ Len(all_alerts) = Len(drone_data)
        /\ \A i \in DOMAIN all_alerts :
              /\ all_alerts[i].drone_id = drone_data[i].drone_id
              /\ \A j \in DOMAIN plane_data :
                    Cardinality(XAlertsOf(i, j)) = IF XDist(i, j) <= 50000 THEN 1 ELSE 0
              /\ Len(all_alerts[i].alerts)
                    = Cardinality({j \in DOMAIN plane_data : XDist(i, j) <= 50000})
              /\ \A k \in DOMAIN all_alerts[i].alerts :
                    all_alerts[i].alerts[k].danger_level # "SAFE"
              /\ all_alerts[i].alert_count = Len(all_alerts[i].alerts)

\* Two drones, one of them with a plane beyond 5 km (left out), a plane at
\* exactly 5 km and another plane within it (both kept).
C6_Witness ==
    /\ Processed /\ Len(all_alerts) = 2
    /\ \E i \in DOMAIN all_alerts : \E j1, j2, j3 \in DOMAIN plane_data :
          /\ XDist(i, j1) > 50000 /\ XAlertsOf(i, j1) = {}
          /\ XDist(i, j2) = 50000 /\ XAlertsOf(i, j2) # {}
          /\ j3 # j2 /\ XDist(i, j3) < 50000
          /\ all_alerts[i].alert_count = 2

\* The distance of the single pair handed to translate_plane_to_drone_alert.
OneDist == Abs(LatOf(one_plane) - LatOf(one_drone))
Translated == xpc = "translated"
\* The distances the monotonicity of the ladder is checked on.
LadderDistances == {0, 1, 4999, 5000, 5001, 9999, 10000, 10001, 19999, 20000, 20001,
                    49999, 50000, 50001, 80000}

\* C7: the level of a translated alert is the one the ladder gives for the
\* distance of the pair (<= 0.5 CRITICAL, <= 1.0 HIGH, <= 2.0 MEDIUM,
\* <= 5.0 LOW, else SAFE), one of the five levels, and a larger distance
\* never gets a more severe level.
C7_LadderInclusive ==
    /\ Translated =>
          /\ one_alert.danger_level \in Levels
          /\ one_alert.danger_level = Ladder(OneDist)
    /\ \A d1, d2 \in LadderDistances :
          d1 <= d2 => LevelRank(get_danger_level(d1)) <= LevelRank(get_danger_level(d2))

\* Translated pairs exactly on the lowest and on the highest rung, and one
\* unit above each.
C7_Witness ==
    /\ Translated
    /\ \/ OneDist = 5000 /\ one_alert.danger_level = "CRITICAL"
       \/ OneDist = 50000 /\ one_alert.danger_level = "LOW"
    /\ LevelRank(get_danger_level(5001)) = 2 /\ LevelRank(get_danger_level(50001)) = 5

\* C8: the priorities are CRITICAL=1, HIGH=2, MEDIUM=3, LOW=4, SAFE=5, so
\* that a more severe level has a strictly lower priority, and the priority
\* of a translated alert is that of its danger level.
C8_PriorityLookup ==
    /\ \A n \in DOMAIN LevelOrder : get_priority(LevelOrder[n]) = n
    /\ \A l1, l2 \in Levels :
          LevelRank(l1) < LevelRank(l2) => get_priority(l1) < get_priority(l2)
    /\ Translated => one_alert.priority = LevelRank(one_alert.danger_level)

\* A translated alert of level HIGH with priority 2.
C8_Witness ==
    Translated /\ one_alert.danger_level = "HIGH" /\ one_alert.priority = 2

---------------------------------------------------------------------------
(* Properties of get_collision_summary                                     *)

Summarized == pc = "summarized"

\* C9: the summary of an empty alert list has its seven fields equal to 0.
C9_EmptySummaryAllZero ==
    (Summarized /\ alerts = <<>>) =>
        /\ DOMAIN summary = {"total_alerts", "unique_drones", "unique_planes",
                             "avg_horizontal_distance", "avg_vertical_distance",
                             "min_horizontal_distance", "min_vertical_distance"}
        /\ \A f \in DOMAIN summary : summary[f] = 0

\* The summary of a detection run that compared pairs and alerted none.
C9_Witness ==
    /\ Summarized /\ alerts = <<>>
    /\ CompletePlanes # {} /\ CompleteDrones # {}
    /\ summary.total_alerts = 0

\* The sum and the least of a field of the alerts.
AlertSum(f) == SumSeq([k \in DOMAIN alerts |-> alerts[k][f]])
AlertMin(f) == CHOOSE m \in {alerts[k][f] : k \in DOMAIN alerts} :
                  \A k \in DOMAIN alerts : m <= alerts[k][f]
\* x is a multiple of 10 units (0.001 km, 0.01 m) nearest to num/den.
NearestOnGrid(x, num, den) ==
    /\ x % 10 = 0
    /\ 2 * Abs(x * den - num) <= 10 * den
Counts ==
    /\ summary.total_alerts = Len(alerts)
    /\ summary.unique_drones = Cardinality({alerts[k].drone_id : k \in DOMAIN alerts})
    /\ summary.unique_planes = Cardinality({alerts[k].plane_icao24 : k \in DOMAIN alerts})
    /\ summary.unique_drones <= summary.total_alerts
    /\ summary.unique_planes <= summary.total_alerts
MinNotAboveAvg ==
    /\ summary.min_horizontal_distance <= summary.avg_horizontal_distance
    /\ summary.min_vertical_distance <= summary.avg_vertical_distance

\* C10 as stated: the counts are those of the alerts, the minima are the
\* least distances and the averages are the means of the distances.
C10_SummaryExactMean ==
    (Summarized /\ alerts # <<>>) =>
        /\ Counts
        /\ summary.min_horizontal_distance = AlertMin("horizontal_distance")
        /\ summary.min_vertical_distance = AlertMin("vertical_distance")
        /\ summary.avg_horizontal_distance * Len(alerts) = AlertSum("horizontal_distance")
        /\ summary.avg_vertical_distance * Len(alerts) = AlertSum("vertical_distance")
        /\ MinNotAboveAvg

\* C10 amended: the counts are those of the alerts, and the minima and the
\* averages are the least distance and the mean distance rounded to 3
\* decimals of a km (horizontal) and 2 decimals of a m (vertical); unique
\* counts do not exceed the total and no minimum exceeds its average.
C10_SummaryRoundedMean ==
    (Summarized /\ alerts # <<>>) =>
        /\ Counts
        /\ NearestOnGrid(summary.min_horizontal_distance,
                         AlertMin("horizontal_distance"), 1)
        /\ NearestOnGrid(summary.min_vertical_distance, AlertMin("vertical_distance"), 1)
        /\ NearestOnGrid(summary.avg_horizontal_distance,
                         AlertSum("horizontal_distance"), Len(alerts))
        /\ NearestOnGrid(summary.avg_vertical_distance,
                         AlertSum("vertical_distance"), Len(alerts))
        /\ MinNotAboveAvg

\* A summary of three alerts of two drones and two planes whose mean
\* horizontal distance is no multiple of 0.001 km.
C10_Witness ==
    /\ Summarized /\ Len(alerts) = 3
    /\ summary.unique_drones = 2 /\ summary.unique_planes = 2
    /\ summary.avg_horizontal_distance * 3 # AlertSum("horizontal_distance")
    /\ summary.min_horizontal_distance < summary.avg_horizontal_distance

---------------------------------------------------------------------------
(* Null rows, empty batches and missing columns in detect_collisions       *)

\* The batches without their rows that have a null mandatory cell.
PlanesWithoutNullRows ==
    SelectSeq(planes_df, LAMBDA r : /\ r.icao24 # {} /\ r.latitude # {}
                                    /\ r.longitude # {} /\ r.baro_altitude # {})
DronesWithoutNullRows ==
    SelectSeq(drones_df, LAMBDA r : /\ r.drone_id # {} /\ r.latitude # {}
                                    /\ r.longitude # {} /\ r.altitude # {})
HasNullRow ==
    \/ Len(PlanesWithoutNullRows) < Len(planes_df)
    \/ Len(DronesWithoutNullRows) < Len(drones_df)

\* C11: a call on batches with rows that have a null mandatory cell raises
\* nothing, returns no alert that names such a row, and returns the alerts
\* of the same call on the batches without those rows.
C11_NullRowsExcluded ==
    (pc # "start" /\ planes_columns = required_plane_cols
                  /\ drones_columns = required_drone_cols) =>
        /\ pc # "raised" /\ raised = <<>>
        /\ \A k \in DOMAIN alerts :
              /\ \E i \in CompletePlanes : alerts[k].plane_icao24 = PlaneNames[i]
              /\ \E j \in CompleteDrones : alerts[k].drone_id = DroneNames[j]
        /\ alerts = detect_collisions(PlanesWithoutNullRows, DronesWithoutNullRows,
                                      h_threshold, v_threshold)

\* A call that dropped a plane row and a drone row with a null cell, the
\* plane row ahead of a complete one, and returned an alert.
C11_Witness ==
    /\ Detected /\ alerts # <<>>
    /\ Len(planes_df) = 2 /\ CompletePlanes = {2}
    /\ Len(drones_df) = 2 /\ Cardinality(CompleteDrones) = 1

\* The number of rows the cleaning dropped.
DroppedRows ==
    (Len(planes_df) - Len(PlanesWithoutNullRows))
    + (Len(drones_df) - Len(DronesWithoutNullRows))
\* The printed lines that report how many rows were skipped.
SkipReports == {k \in DOMAIN stdout : "skipped" \in DOMAIN stdout[k]}

\* C12 as stated: a call that dropped rows with null cells reports how many
\* it dropped, the number of input rows minus the number of cleaned rows.
C12_SkipCountReported ==
    (Detected /\ planes_df # <<>> /\ drones_df # <<>> /\ HasNullRow) =>
        \E k \in SkipReports : stdout[k].skipped = DroppedRows

ColumnsComplete ==
    /\ {"icao24", "latitude", "longitude", "baro_altitude"} \subseteq planes_columns
    /\ {"drone_id", "latitude", "longitude", "altitude"} \subseteq drones_columns

\* C13: a call with a batch that is empty on entry, or that is empty once
\* the rows with null cells are dropped, raises nothing and returns the
\* empty list.
C13_EmptyBatchNoAlerts ==
    (pc # "start" /\
       \/ planes_df = <<>> \/ drones_df = <<>>
       \/ ColumnsComplete /\ (PlanesWithoutNullRows = <<>>
                               \/ DronesWithoutNullRows = <<>>)) =>
        /\ Detected /\ raised = <<>> /\ alerts = <<>>

\* A call on two batches with rows, every plane row with a null cell, the
\* drones complete.
C13_Witness ==
    /\ Detected /\ alerts = <<>>
    /\ Len(planes_df) = 2 /\ PlanesWithoutNullRows = <<>>
    /\ Len(drones_df) = 2 /\ DronesWithoutNullRows = drones_df

\* The mandatory columns absent from the two batches.
AbsentPlaneColumns == {"icao24", "latitude", "longitude", "baro_altitude"} \ planes_columns
AbsentDroneColumns == {"drone_id", "latitude", "longitude", "altitude"} \ drones_columns

\* C14 as stated: a call on batches of which one lacks a mandatory column
\* raises an error that names every absent column, of either batch, and
\* returns no list.
C14_MissingColumnsRaise ==
    (pc # "start" /\ (AbsentPlaneColumns # {} \/ AbsentDroneColumns # {})) =>
        /\ pc = "raised" /\ raised # <<>>
        /\ (IF raised.batch = "plane" THEN raised.columns ELSE {}) = AbsentPlaneColumns
        /\ (IF raised.batch = "drone" THEN raised.columns ELSE {}) = AbsentDroneColumns
\* The same for calls on two batches with rows.
C14_NonEmptyMissingColumnsRaise ==
    (planes_df # <<>> /\ drones_df # <<>>) => C14_MissingColumnsRaise
\* What the code does: with rows in both batches, the call raises and names
\* the absent plane columns, or, when the plane batch lacks none, the absent
\* drone columns.
C14_FirstFailingBatchNamed ==
    (pc # "start" /\ planes_df # <<>> /\ drones_df # <<>>
       /\ (AbsentPlaneColumns # {} \/ AbsentDroneColumns # {})) =>
        /\ pc = "raised" /\ raised # <<>>
        /\ raised.columns = IF AbsentPlaneColumns # {} THEN AbsentPlaneColumns
                             ELSE AbsentDroneColumns

---------------------------------------------------------------------------
(* Pairs that fail inside detect_collisions                                *)

\* The conversion of an altitude of the pair (i, j) to a number fails.
Throws(i, j) == NonNumeric \in (planes_df[i].baro_altitude \cup drones_df[j].altitude)
\* A coordinate of the pair (i, j) is not a finite number.
NonFinite(i, j) ==
    {Inf, NonNumeric} \cap (planes_df[i].latitude \cup planes_df[i].longitude
                             \cup drones_df[j].latitude \cup drones_df[j].longitude) # {}
\* The pair (i, j) computes cleanly and lies within both thresholds.
CleanNear(i, j) ==
    /\ ~Throws(i, j) /\ ~NonFinite(i, j)
    /\ PairH(i, j) <= h_threshold /\ PairV(i, j) <= v_threshold
\* The rows an alert was built from.
PlaneRow(k) == CHOOSE i \in DOMAIN planes_df : planes_df[i].icao24 = {alerts[k].plane_icao24}
DroneRow(k) == CHOOSE j \in DOMAIN drones_df : drones_df[j].drone_id = {alerts[k].drone_id}
ScanOrder ==
    \A k, l \in DOMAIN alerts :
        k < l => \/ PlaneRow(k) < PlaneRow(l)
                 \/ PlaneRow(k) = PlaneRow(l) /\ DroneRow(k) < DroneRow(l)

\* C15: a call in which the computation of some pairs throws raises nothing
\* and returns exactly the alerts of the pairs that compute cleanly, one
\* for each such pair within both thresholds, in the order of the scan.
C15_FailedPairSkipped ==
    (pc # "start" /\ ColumnsComplete) =>
        /\ Detected /\ raised = <<>>
        /\ \A i \in CompletePlanes : \A j \in CompleteDrones :
              Cardinality(AlertsOf(i, j)) = IF CleanNear(i, j) THEN 1 ELSE 0
        /\ Len(alerts) = Cardinality({ij \in CompletePlanes \X CompleteDrones :
                                        CleanNear(ij[1], ij[2])})
        /\ ScanOrder

\* A call in which the first drone fails against both planes and the second
\* drone is alerted against both.
C15_Witness ==
    /\ Detected /\ Len(planes_df) = 2 /\ Len(drones_df) = 2
    /\ Throws(1, 1) /\ Throws(2, 1)
    /\ Len(alerts) = 2
    /\ alerts[1].plane_icao24 = "P1" /\ alerts[1].drone_id = "D2"
    /\ alerts[2].plane_icao24 = "P2" /\ alerts[2].drone_id = "D2"
    /\ Cardinality({k \in DOMAIN stdout : stdout[k].msg = "Error processing pair"}) = 2

\* C17: for a pair with a coordinate that is not finite,
\* calculate_horizontal_distance returns the infinite distance instead of
\* raising; the call raises nothing, the pair has no alert under the
\* (finite) thresholds, and every other pair that computes cleanly within
\* the thresholds has its alert.
C17_InfiniteSentinel ==
    (pc # "start" /\ ColumnsComplete) =>
        /\ Detected /\ raised = <<>>
        /\ h_threshold < Inf
        /\ \A i \in CompletePlanes : \A j \in CompleteDrones :
              /\ NonFinite(i, j) =>
                    /\ calculate_horizontal_distance(
                           val(planes_df[i].latitude), val(planes_df[i].longitude),
                           val(drones_df[j].latitude), val(drones_df[j].longitude)) = Inf
                    /\ AlertsOf(i, j) = {}
              /\ CleanNear(i, j) => AlertsOf(i, j) # {}

\* A call whose first drone has a latitude that is not finite and whose
\* second drone is alerted.
C17_Witness ==
    /\ Detected /\ Len(planes_df) = 1 /\ Len(drones_df) = 2
    /\ NonFinite(1, 1) /\ ~Throws(1, 1)
    /\ Len(alerts) = 1 /\ alerts[1].drone_id = "D2"
    /\ stdout[2].msg = "Error calculating distance"

---------------------------------------------------------------------------
(* The order of the alerts                                                 *)

\* The position of the pair (i, j) in the scan: plane rows in batch order,
\* within a plane the drone rows in batch order.
ScanPosition(i, j) == (i - 1) * Len(drones_df) + j

\* C20: the alerts are in the order in which the nested loops met their
\* pairs: grouped by aircraft in batch order, within an aircraft in drone
\* batch order; no sort is applied.
C20_AlertsInScanOrder ==
    Detected =>
        \A k \in DOMAIN alerts : \A l \in DOMAIN alerts :
            k < l => ScanPosition(PlaneRow(k), DroneRow(k))
                        < ScanPosition(PlaneRow(l), DroneRow(l))

\* A call that alerted all four pairs of two planes and two drones, the
\* second alert farther than the third.
C20_Witness ==
    /\ Detected /\ Len(alerts) = 4
    /\ <<alerts[1].plane_icao24, alerts[1].drone_id>> = <<"P1", "D1">>
    /\ <<alerts[2].plane_icao24, alerts[2].drone_id>> = <<"P1", "D2">>
    /\ <<alerts[3].plane_icao24, alerts[3].drone_id>> = <<"P2", "D1">>
    /\ <<alerts[4].plane_icao24, alerts[4].drone_id>> = <<"P2", "D2">>
    /\ alerts[2].horizontal_distance > alerts[3].horizontal_distance

---------------------------------------------------------------------------
(* Pairs that fail inside process_multiple_alerts                          *)

\* The distance of the j-th plane and the i-th drone cannot be computed.
XThrows(i, j) ==
    NonNumeric \in (plane_data[j].latitude \cup drone_data[i].latitude)
SomePairThrows == \E i \in DOMAIN drone_data : \E j \in DOMAIN plane_data : XThrows(i, j)

\* C16 as stated: a call in which the distance of some pair cannot be
\* computed returns one summary per drone, with an alert for every other
\* pair within 5.0 km and none for the pairs that failed.
C16_FailedPairSkipped ==
    (xpc # "start" /\ SomePairThrows) =>
        /\ Processed
        /\ Len(all_alerts) = Len(drone_data)
        /\ \A i \in DOMAIN all_alerts : \A j \in DOMAIN plane_data :
              Cardinality(XAlertsOf(i, j)) =
                  IF ~XThrows(i, j) /\ XDist(i, j) <= 50000 THEN 1 ELSE 0

---------------------------------------------------------------------------
(* Calls repeated on the same objects                                      *)

---------------------------------------------------------------------------
(* Concurrent calls of detect_collisions                                   *)

\* C19: each of two calls on disjoint batches whose loop iterations
\* interleave in any order returns the list it returns when it runs alone.
C19_ConcurrentCallsIndependent ==
    \A k \in DOMAIN invocation :
        invocation[k].pc = "returned" =>
            invocation[k].returned =
                detect_collisions(invocation[k].planes_df, invocation[k].drones_df,
                                  h_threshold, v_threshold)

\* The first call has returned its alert; the second is between its two
\* pairs and has appended the alert of the first of them.
C19_Witness ==
    /\ DOMAIN invocation = {1, 2}
    /\ invocation[1].pc = "returned" /\ Len(invocation[1].returned) = 1
    /\ invocation[1].returned[1].drone_id = "D1"
    /\ invocation[2].pc = "scan" /\ invocation[2].drone_idx = 2
    /\ Len(lists[2]) = 1 /\ lists[2][1].drone_id = DroneNames[MaxConcDrones + 1]

---------------------------------------------------------------------------
(* Stability of the per-drone sort                                         *)

\* The position in plane_data of the plane an alert of a summary is about.
XPlaneIndex(alert) == CHOOSE j \in DOMAIN PlaneNames : PlaneNames[j] = alert.callsign

\* C21: in every drone summary two alerts of equal priority are in the order
\* of their planes in the plane list.
C21_SortStable ==
    Processed =>
        \A i \in DOMAIN all_alerts :
            LET as == all_alerts[i].alerts
            IN  \A a, b \in DOMAIN as :
                    (a < b /\ as[a].priority = as[b].priority)
                        => XPlaneIndex(as[a]) < XPlaneIndex(as[b])

\* A summary whose planes were evaluated MEDIUM, CRITICAL, CRITICAL: the sort
\* moved the two CRITICAL alerts ahead and kept them in plane order.
C21_Witness ==
    /\ Processed /\ Len(plane_data) = 3 /\ drone_data # <<>>
    /\ Len(all_alerts[1].alerts) = 3
    /\ [k \in 1..3 |-> all_alerts[1].alerts[k].callsign] = <<"P2", "P3", "P1">>
    /\ [k \in 1..3 |-> all_alerts[1].alerts[k].priority] = <<1, 1, 3>>

---------------------------------------------------------------------------
(* The danger level and the altitudes                                      *)

\* The pair handed to the translator as one-row batches of the detector,
\* the plane at 200 m and the drone at the altitude alt.
OnePlaneRow ==
    << [icao24 |-> Some("P1"), latitude |-> Some(LatOf(one_plane)),
        longitude |-> Some(0), baro_altitude |-> Some(200000)] >>
OneDroneRow(alt) ==
    << [drone_id |-> Some("D1"), latitude |-> Some(LatOf(one_drone)),
        longitude |-> Some(0), altitude |-> Some(alt)] >>

\* C22: the danger level and the priority of a translated pair are those of
\* the same pair with any other altitude of the plane or of the drone;
\* detect_collisions with the default thresholds alerts a pair within
\* 0.5 km that is 100 m apart vertically and not one 100.01 m apart.
C22_LevelIgnoresAltitude ==
    Translated =>
        /\ \A pa \in {{200000}, {12000}, {}} : \A da \in {{200000}, {12000}, {}} :
              LET other == translate_plane_to_drone_alert(
                               [one_plane EXCEPT !.altitude = pa],
                               [one_drone EXCEPT !.altitude = da])
              IN  /\ other.danger_level = one_alert.danger_level
                  /\ other.priority = one_alert.priority
        /\ OneDist <= 5000 =>
              /\ Len(detect_collisions(OnePlaneRow, OneDroneRow(100000), 5000, 100000)) = 1
              /\ detect_collisions(OnePlaneRow, OneDroneRow(99990), 5000, 100000) = <<>>

\* A pair 0.4999 km apart horizontally and 188 m apart vertically, rated
\* CRITICAL.
C22_Witness ==
    /\ Translated /\ OneDist = 4999
    /\ one_plane.altitude = {200000} /\ one_drone.altitude = {12000}
    /\ one_alert.plane_altitude = 200000 /\ one_alert.drone_altitude = 12000
    /\ one_alert.danger_level = "CRITICAL" /\ one_alert.priority = 1

---------------------------------------------------------------------------
(* The distance functions                                                  *)

FiniteArguments == arg_point1[1] # Inf /\ arg_point2[1] # Inf

\* C23: for finite arguments both distances are non-negative and the same in
\* both orders of their arguments, and the vertical distance is the absolute
\* difference of the altitudes.
C23_DistancesSymmetric ==
    (fpc = "returned" /\ FiniteArguments) =>
        /\ ret_distance.h12 >= 0 /\ ret_distance.h12 = ret_distance.h21
        /\ ret_distance.v12 >= 0 /\ ret_distance.v12 = ret_distance.v21
        /\ ret_distance.v12 = IF arg_altitude1 >= arg_altitude2
                              THEN arg_altitude1 - arg_altitude2
                              ELSE arg_altitude2 - arg_altitude1

\* The distances of a point south of the origin at a negative altitude and a
\* point north of it at a positive one.
C23_Witness ==
    /\ fpc = "returned"
    /\ arg_point1[1] = -5000 /\ arg_point2[1] = 5000
    /\ arg_altitude1 = -100000 /\ arg_altitude2 = 200000
    /\ ret_distance.h12 = 10000 /\ ret_distance.v12 = 300000

---------------------------------------------------------------------------
(* The concrete scenario                                                   *)

\* The call of the scenario has returned: one aircraft, one drone, the
\* default thresholds 0.5 km and 100 m.
ScenarioDetected ==
    /\ Detected
    /\ planes_df = PlaneBatch(<<ScenarioPlane>>)
    /\ drones_df = DroneBatch(<<ScenarioDrone>>)
    /\ h_threshold = 5000 /\ v_threshold = 100000

\* C24 as stated: the call returns exactly one alert, with a horizontal
\* distance between 0.0006 km and 0.001 km and a vertical distance of 10 m.
C24_ScenarioAsStated ==
    ScenarioDetected =>
        /\ Len(alerts) = 1
        /\ alerts[1].horizontal_distance >= 6 /\ alerts[1].horizontal_distance <= 10
        /\ alerts[1].vertical_distance = 10000

\* C24 amended: the call returns exactly one alert, of the drone and the
\* aircraft, with a horizontal distance of 0.007 km and a vertical distance
\* of 10 m.
C24_ScenarioSevenMetres ==
    ScenarioDetected =>
        /\ Len(alerts) = 1
        /\ alerts[1].drone_id = "D1" /\ alerts[1].plane_icao24 = "P1"
        /\ alerts[1].horizontal_distance = 70
        /\ alerts[1].vertical_distance = 10000

\* The call of the scenario has returned an alert.
C24_Witness == ScenarioDetected /\ alerts # <<>> /\ stdout[2].collision_count = 1

---------------------------------------------------------------------------
(* PilotDashboardService: the data sets, switch_data_mode,                 *)
(* get_current_aircraft and the routes that change the service             *)

\* A callsign is its text and the number of blanks that pad it; a drone or
\* aircraft identifier is the sequence of the pieces it is formatted from.
Callsign(text, pad) == [text |-> text, pad |-> pad]
strip(callsign) == [callsign EXCEPT !.pad = 0]
Falsy(callsign) == callsign.text = <<>> /\ callsign.pad = 0

\* The number of drones that real mode shows at least.
TargetDrones == 30

\* The largest real drone set.
MaxRealDrones == 4

\* create_test_collision_scenario: seven aircraft, the first is UAL100, and
\* nine drones.
TestCallsigns == <<"UAL100", "DAL201", "AAL302", "JBU403", "SWA504", "UAL605", "AAL706">>
TestDroneIds == <<"DRONE_CRITICAL", "DRONE_HIGH_1", "DRONE_HIGH_2", "DRONE_MED_1",
                  "DRONE_MED_2", "DRONE_LOW_1", "DRONE_LOW_2", "DRONE_SAFE_1",
                  "DRONE_SAFE_2">>
create_test_collision_scenario ==
    [planes |-> [i \in DOMAIN TestCallsigns |->
                    [icao24 |-> <<"TEST", i - 1>>,
                     callsign |-> Callsign(<<TestCallsigns[i]>>, 0)]],
     drones |-> [i \in DOMAIN TestDroneIds |-> [drone_id |-> <<TestDroneIds[i]>>]]]

\* load_real_data: the aircraft that survive the filters, with the callsigns
\* as the file pads them, and the drones, one row per drone_id; both are
\* empty when the file is absent or cannot be read.
RealPlaneRows ==
    [a |-> [icao24 |-> <<"a0f1c2">>, callsign |-> Callsign(<<"AIC101">>, 1)],
     r |-> [icao24 |-> <<"REG", 1>>, callsign |-> Callsign(<<"REG205">>, 0)],
     u |-> [icao24 |-> <<"4ca7b5">>, callsign |-> Callsign(<<"UAL100">>, 1)],
     e |-> [icao24 |-> <<"3c6444">>, callsign |-> Callsign(<<>>, 1)]]
RealPlaneSets ==
    {<<>>, <<RealPlaneRows.a>>, <<RealPlaneRows.a, RealPlaneRows.r>>,
     <<RealPlaneRows.u, RealPlaneRows.a>>, <<RealPlaneRows.e, RealPlaneRows.a>>}
RealDroneSets ==
    {[i \in 1..n |-> [drone_id |-> <<DroneNames[i]>>]] : n \in 0..MaxRealDrones}

\* The callsigns a request names.
RequestedCallsigns ==
    {Callsign(<<"DAL201">>, 0), Callsign(<<"AIC101">>, 0), Callsign(<<"UAL100">>, 1),
     Callsign(<<"ZZZ999">>, 0)}

\* Variant: every variant of one drone gets the same suffix.
variant_suffix_fixed(drones, additional) == Len(drones)

\* suffix = len(additional_drones) + len(self.drones_df)
variant_suffix(drones, additional) == Len(additional) + Len(drones)

\* variant['drone_id'] = f"{drone['drone_id']}_V{suffix}"; the random offsets
\* of the position are not part of the row here.
variant_of(drone, suffix) == [drone EXCEPT !.drone_id = @ \o <<"_V", suffix>>]

\* Variant: the lookup leaves the selected callsign alone when it falls back
\* to the first aircraft.
FallbackCallsignKept(first, selected) == selected

\* self.current_aircraft_callsign = current_plane.iloc[0]['callsign'].strip()
FallbackCallsign(first, selected) == strip(first.callsign)

\* get_current_aircraft(callsign): the selected callsign afterwards and the
\* aircraft returned ({} for None); first_used tells that no callsign
\* matched and the first aircraft was taken.
get_current_aircraft(planes, selected, callsign, test) ==
    LET named == IF callsign # {} THEN CHOOSE c \in callsign : TRUE ELSE selected
        wanted == IF Falsy(named)
                  THEN (IF test THEN Callsign(<<"UAL100">>, 0)
                                ELSE Callsign(<<"AI100">>, 0))
                  ELSE named
        found == {i \in DOMAIN planes : strip(planes[i].callsign) = wanted}
    IN  IF planes = <<>> THEN [selected |-> named, aircraft |-> {}]
        ELSE IF found # {}
        THEN LET plane == planes[CHOOSE i \in found : \A j \in found : i <= j]
             IN  [selected |-> wanted,
                  aircraft |-> {[icao24 |-> plane.icao24,
                                 callsign |-> strip(plane.callsign),
                                 first_used |-> FALSE]}]
        ELSE [selected |-> FallbackCallsign(planes[1], wanted),
              aircraft |-> {[icao24 |-> planes[1].icao24,
                             callsign |-> strip(planes[1].callsign),
                             first_used |-> TRUE]}]

\* _create_aircraft_clusters: three rings of 8, 6 and 4 aircraft made from
\* copies of existing rows; the lookup of the current aircraft it starts with
\* may change the selected callsign.
ClusterRing(ring) == IF ring = 1 THEN 8 ELSE IF ring = 2 THEN 6 ELSE 4
ClusterRows(ring) ==
    [k \in 1..ClusterRing(ring) |->
        [icao24 |-> <<"CLU", ring, k - 1>>,
         callsign |-> Callsign(<<"CL", ring, 100 + k - 1>>, 0)]]
create_aircraft_clusters(planes, selected, test) ==
    LET current == get_current_aircraft(planes, selected, {}, test)
    IN  IF planes = <<>> \/ current.aircraft = {}
        THEN [planes |-> planes, selected |-> selected]
        ELSE [planes |-> planes \o ClusterRows(1) \o ClusterRows(2) \o ClusterRows(3),
              selected |-> current.selected]

\* The aircraft that real mode selects: the first whose icao24 starts with
\* REG, else the first.
SelectRealAircraft(planes) ==
    LET regional == {i \in DOMAIN planes : planes[i].icao24[1] = "REG"}
    IN  IF regional # {}
        THEN strip(planes[CHOOSE i \in regional : \A j \in regional : i <= j].callsign)
        ELSE strip(planes[1].callsign)

\* After construction: __init__ loads the test scenario and the real data
\* and switches to test mode, with UAL100 selected.
InitSwitch ==
    /\ test_planes_df = create_test_collision_scenario.planes
    /\ test_drones_df = create_test_collision_scenario.drones
    /\ real_planes_df \in RealPlaneSets
    /\ real_drones_df \in RealDroneSets
    /\ use_test_data = TRUE
    /\ svc_planes_df = test_planes_df /\ svc_drones_df = test_drones_df
    /\ current_aircraft_callsign = Callsign(<<"UAL100">>, 0)
    /\ additional_drones = <<>> /\ base_drones = <<>> /\ for_index = 0
    /\ aircraft_returned = {} /\ spc = "idle"
    /\ current_aircraft = SvcAircraft /\ range_nm = 0
    /\ all_threats = <<>> /\ threats = <<>> /\ tpc = "idle"
    /\ DetectIdle /\ XlatIdle /\ DistIdle

\* switch_data_mode up to the padding loop: test mode copies the test
\* scenario and selects UAL100 and is done; real mode copies the real data
\* and goes on to pad the drones.
BeginSwitch(test) ==
    /\ IF test
       THEN /\ svc_planes_df' = test_planes_df
            /\ svc_drones_df' = test_drones_df
            /\ current_aircraft_callsign' = Callsign(<<"UAL100">>, 0)
            /\ base_drones' = <<>>
            /\ spc' = "idle"
       ELSE /\ svc_planes_df' = real_planes_df
            /\ svc_drones_df' = real_drones_df
            /\ current_aircraft_callsign' = current_aircraft_callsign
            /\ base_drones' = IF Len(real_drones_df) < TargetDrones
                              THEN real_drones_df ELSE <<>>
            /\ spc' = "while"
    /\ additional_drones' = <<>> /\ for_index' = 0
    /\ aircraft_returned' = {}
    /\ UNCHANGED <<dataVars, current_aircraft, range_nm, all_threats, threats, tpc>>
    /\ UNCHANGED <<detectVars, xlatVars, distVars>>

\* POST /api/toggle-data-source
ToggleDataSource ==
    /\ spc = "idle"
    /\ use_test_data' = ~use_test_data
    /\ BeginSwitch(~use_test_data)

\* POST /api/reload-data: load_data, which is switch_data_mode
ReloadData ==
    /\ spc = "idle"
    /\ use_test_data' = use_test_data
    /\ BeginSwitch(use_test_data)

PaddedCount == Len(svc_drones_df) + Len(additional_drones)

\* while len(self.drones_df) + len(additional_drones) < 30: the body starts
\* a pass over base_drones.
WhileEnter ==
    /\ spc = "while"
    /\ PaddedCount < TargetDrones
    /\ spc' = "for" /\ for_index' = 1
    /\ UNCHANGED <<dataVars, svc_planes_df, current_aircraft_callsign,
                   additional_drones, base_drones, aircraft_returned>>
    /\ UNCHANGED <<detectVars, tierVars, xlatVars, distVars>>

\* One iteration of the for loop over base_drones: break when the count is
\* reached, else append a variant of the drone.
ForIteration ==
    /\ spc = "for"
    /\ for_index <= Len(base_drones)
    /\ IF PaddedCount >= TargetDrones
       THEN /\ spc' = "while"
            /\ UNCHANGED <<additional_drones, for_index>>
       ELSE /\ additional_drones' =
                   Append(additional_drones,
                          variant_of(base_drones[for_index],
                                     variant_suffix(svc_drones_df, additional_drones)))
            /\ for_index' = for_index + 1
            /\ spc' = "for"
    /\ UNCHANGED <<dataVars, svc_planes_df, current_aircraft_callsign,
                   base_drones, aircraft_returned>>
    /\ UNCHANGED <<detectVars, tierVars, xlatVars, distVars>>

\* The for loop has gone through base_drones: back to the while test.
ForExit ==
    /\ spc = "for"
    /\ for_index > Len(base_drones)
    /\ spc' = "while"
    /\ UNCHANGED <<dataVars, svc_planes_df, current_aircraft_callsign,
                   additional_drones, base_drones, for_index, aircraft_returned>>
    /\ UNCHANGED <<detectVars, tierVars, xlatVars, distVars>>

\* The while test fails: the variants are appended, real mode selects its
\* aircraft and adds the clusters, and switch_data_mode returns.
WhileExit ==
    /\ spc = "while"
    /\ PaddedCount >= TargetDrones
    /\ svc_drones_df' = svc_drones_df \o additional_drones
    /\ LET clustered == create_aircraft_clusters(svc_planes_df,
                                                 SelectRealAircraft(svc_planes_df), FALSE)
       IN  IF svc_planes_df = <<>>
           THEN UNCHANGED <<svc_planes_df, current_aircraft_callsign>>
           ELSE /\ svc_planes_df' = clustered.planes
                /\ current_aircraft_callsign' = clustered.selected
    /\ additional_drones' = <<>> /\ base_drones' = <<>> /\ for_index' = 0
    /\ spc' = "idle"
    /\ UNCHANGED <<dataVars, aircraft_returned>>
    /\ UNCHANGED <<use_test_data, current_aircraft, range_nm, all_threats, threats, tpc>>
    /\ UNCHANGED <<detectVars, xlatVars, distVars>>

\* POST /api/set-aircraft: a request without a callsign is refused.
SetCurrentAircraft(callsign) ==
    /\ spc = "idle"
    /\ current_aircraft_callsign' =
          IF callsign = {} \/ (\E c \in callsign : Falsy(c))
          THEN current_aircraft_callsign
          ELSE CHOOSE c \in callsign : TRUE
    /\ aircraft_returned' = {}
    /\ UNCHANGED <<dataVars, svc_planes_df, additional_drones, base_drones,
                   for_index, spc>>
    /\ UNCHANGED <<detectVars, tierVars, xlatVars, distVars>>

\* service.get_current_aircraft(callsign)
GetCurrentAircraft(callsign) ==
    /\ spc = "idle"
    /\ LET result == get_current_aircraft(svc_planes_df, current_aircraft_callsign,
                                          callsign, use_test_data)
       IN  /\ current_aircraft_callsign' = result.selected
           /\ aircraft_returned' = result.aircraft
    /\ UNCHANGED <<dataVars, svc_planes_df, additional_drones, base_drones,
                   for_index, spc>>
    /\ UNCHANGED <<detectVars, tierVars, xlatVars, distVars>>

RequestArguments == {{}} \cup {{c} : c \in RequestedCallsigns}

\* A step of the running switch_data_mode call.
SwitchStep == WhileEnter \/ ForIteration \/ ForExit \/ WhileExit

NextSwitch ==
    \/ ToggleDataSource
    \/ ReloadData
    \/ \E callsign \in RequestArguments : SetCurrentAircraft(callsign)
    \/ \E callsign \in RequestArguments : GetCurrentAircraft(callsign)
    \/ WhileEnter
    \/ ForIteration
    \/ ForExit
    \/ WhileExit

SpecSwitch == InitSwitch /\ [][NextSwitch]_vars

\* A call that has started keeps executing: the interpreter runs the handler
\* until it returns. Requests themselves need not arrive.
SpecSwitchFair == SpecSwitch /\ WF_vars(SwitchStep)

---------------------------------------------------------------------------
(* C25: switching the dashboard service to real mode terminates for every  *)
(* loaded real data set, the empty real drone set included: a started      *)
(* switch_data_mode call always returns.                                   *)
C25_SwitchTerminates == (spc # "idle") ~> (spc = "idle")

---------------------------------------------------------------------------
(* C26: when the real drone set holds fewer than 30 drones, a              *)
(* switch_data_mode call that returns in real mode leaves exactly 30       *)
(* active drones, and every variant it creates has a drone_id distinct     *)
(* from those of all other drones of the active set.                       *)
PaddedDrones == svc_drones_df \o additional_drones
DroneIdsDistinct ==
    \A i, j \in DOMAIN PaddedDrones :
        i # j => PaddedDrones[i].drone_id # PaddedDrones[j].drone_id
---------------------------------------------------------------------------
(* C27: get_collision_threats returns a list without raising whatever      *)
(* tier of its own tier lists a threat is classified at: critical, high,   *)
(* medium and low in test mode, and advisory as well in real mode.         *)
TierNames(test) == {threat_levels(test)[k].name : k \in DOMAIN threat_levels(test)}
C27_EveryTierReturned ==
    tpc # "start" =>
        /\ tpc = "returned"
        /\ \A k \in DOMAIN all_threats : all_threats[k].risk_level \in TierNames(use_test_data)

\* Calls whose threats are all classified at a tier that risk_order ranks
\* return the list.
C27_RankedTiersReturned ==
    (tpc # "start" /\ \A k \in DOMAIN all_threats : all_threats[k].risk_level \in DOMAIN risk_order)
        => tpc = "returned"

---------------------------------------------------------------------------
(* detect_collisions called on the same batches with several threshold     *)
(* pairs, as the tier loop of get_collision_threats does                   *)

\* One aircraft position at 200 m; drones 0.4996 km away and 10 m below,
\* 6 m away and 99.996 m below, 0.1 km away and 30 m below.
SweepPlaneShapes ==
    {[idnull |-> FALSE, latitude |-> Some(0), longitude |-> Some(0),
      baro_altitude |-> Some(200000)]}
SweepDroneShapes ==
    {[idnull |-> FALSE, latitude |-> Some(4996), longitude |-> Some(0),
      altitude |-> Some(190000)],
     [idnull |-> FALSE, latitude |-> Some(60), longitude |-> Some(0),
      altitude |-> Some(100004)],
     [idnull |-> FALSE, latitude |-> Some(1000), longitude |-> Some(0),
      altitude |-> Some(170000)]}

\* Threshold pairs: the critical tier of test mode, the defaults, a pair
\* that is no multiple of 0.001 km and 0.01 m, and a pair narrower in one
\* dimension and wider in the other.
SweepThresholds ==
    {[h |-> 1000, v |-> 30000], [h |-> 5000, v |-> 100000],
     [h |-> 4996, v |-> 99996], [h |-> 3000, v |-> 150000]}

InitSweep ==
    /\ \E ps \in SeqUpTo(SweepPlaneShapes, MaxPlanes) : planes_df = PlaneBatch(ps)
    /\ \E ds \in SeqUpTo(SweepDroneShapes, MaxDrones) : drones_df = DroneBatch(ds)
    /\ planes_columns = required_plane_cols /\ drones_columns = required_drone_cols
    /\ h_threshold = DefaultThresholds.h /\ v_threshold = DefaultThresholds.v
    /\ alerts = <<>> /\ summary = <<>> /\ pc = "start"
    /\ raised = <<>> /\ stdout = <<>>
    /\ history = <<>> /\ invocation = <<>> /\ lists = <<>>
    /\ TierIdle /\ XlatIdle /\ ExtraIdle

NextSweep == \E t \in SweepThresholds : CallDetectCollisions(t)
SpecSweep == InitSweep /\ [][NextSweep]_vars

---------------------------------------------------------------------------
(* C28: detection is monotone in its thresholds: on the same batches, if   *)
(* h1 <= h2 and v1 <= v2, every (aircraft, drone) pair alerted at (h1, v1) *)
(* is alerted at (h2, v2); the tier lists of get_collision_threats have    *)
(* non-decreasing thresholds, so a candidate claimed at one tier matches   *)
(* every later tier.                                                       *)
AlertedPairs(result) ==
    {<<result[k].plane_icao24, result[k].drone_id>> : k \in DOMAIN result}
TiersNonDecreasing(levels) ==
    \A k, m \in DOMAIN levels :
        k <= m => /\ levels[k].h_threshold <= levels[m].h_threshold
                  /\ levels[k].v_threshold <= levels[m].v_threshold
C28_DetectionMonotone ==
    /\ TiersNonDecreasing(TestThreatLevels) /\ TiersNonDecreasing(RealThreatLevels)
    /\ \A a, b \in DOMAIN history :
          (/\ history[a].args[3] <= history[b].args[3]
           /\ history[a].args[4] <= history[b].args[4])
              => AlertedPairs(history[a].result) \subseteq AlertedPairs(history[b].result)
C28_Witness ==
    \E a, b \in DOMAIN history :
        /\ history[a].args[3] < history[b].args[3]
        /\ history[a].args[4] < history[b].args[4]
        /\ AlertedPairs(history[a].result) # {}
        /\ AlertedPairs(history[a].result) # AlertedPairs(history[b].result)
        /\ AlertedPairs(history[a].result) \subseteq AlertedPairs(history[b].result)

---------------------------------------------------------------------------
(* C29: for every alert returned by detect_collisions, the stored          *)
(* horizontal_distance is <= h_threshold and the stored vertical_distance  *)
(* is <= v_threshold, for every threshold value.                           *)
C29_StoredWithinThresholds ==
    Detected =>
        \A k \in DOMAIN alerts :
            /\ alerts[k].horizontal_distance <= h_threshold
            /\ alerts[k].vertical_distance <= v_threshold

\* C29 as the code has it: the stored distances are rounded, so they stay
\* within the thresholds rounded to the same decimals, and within the
\* thresholds themselves when these are multiples of 0.001 km and 0.01 m.
OnGrid(x) == x % RoundGrid = 0
C29_StoredWithinRoundedThresholds ==
    Detected =>
        \A k \in DOMAIN alerts :
            /\ alerts[k].horizontal_distance <= round3km(h_threshold)
            /\ alerts[k].vertical_distance <= round2m(v_threshold)
            /\ OnGrid(h_threshold) => alerts[k].horizontal_distance <= h_threshold
            /\ OnGrid(v_threshold) => alerts[k].vertical_distance <= v_threshold
C29_Witness ==
    /\ Detected
    /\ ~OnGrid(h_threshold) /\ ~OnGrid(v_threshold)
    /\ \E k \in DOMAIN alerts :
          /\ alerts[k].horizontal_distance > h_threshold
          /\ alerts[k].horizontal_distance = round3km(h_threshold)
    /\ \E k \in DOMAIN alerts :
          /\ alerts[k].vertical_distance > v_threshold
          /\ alerts[k].vertical_distance = round2m(v_threshold)

---------------------------------------------------------------------------
(* C30: after any sequence of toggle_data_source, reload_data,             *)
(* set_current_aircraft and get_current_aircraft calls, the active data    *)
(* set matches the mode flag (in test mode the active planes and drones    *)
(* equal the stored test scenario, in real mode they start with the stored *)
(* real rows), switching never modifies the stored test and real data      *)
(* sets, and an aircraft returned by get_current_aircraft has the callsign *)
(* that current_aircraft_callsign holds, also when no aircraft has the     *)
(* requested callsign and the first one is used.                           *)
StartsWith(rows, stored) ==
    /\ Len(stored) <= Len(rows)
    /\ \A i \in DOMAIN stored : rows[i] = stored[i]
ActiveMatchesMode ==
    IF use_test_data
    THEN svc_planes_df = test_planes_df /\ svc_drones_df = test_drones_df
    ELSE StartsWith(svc_planes_df, real_planes_df) /\ StartsWith(svc_drones_df, real_drones_df)
ReturnedIsSelected ==
    \A aircraft \in aircraft_returned : aircraft.callsign = current_aircraft_callsign
C30_ActiveDataMatchesMode ==
    /\ [](ActiveMatchesMode /\ ReturnedIsSelected)
    /\ [][UNCHANGED dataVars]_vars
C30_Witness ==
    /\ ~use_test_data /\ spc = "idle"
    /\ Len(svc_drones_df) = TargetDrones
    /\ Len(svc_planes_df) > Len(real_planes_df)
    /\ \E aircraft \in aircraft_returned :
          /\ aircraft.first_used
          /\ aircraft.callsign = current_aircraft_callsign
          /\ svc_planes_df[1].callsign # aircraft.callsign

=============================================================================
